---- MODULE Spec2Model ----
(***************************************************************************)
(* pigeon: the C-ABI gateway of src/lib.rs (pigeon_send_request,           *)
(* pigeon_free_string, pigeon_load_config, pigeon_reload_config) and the   *)
(* embedded Lua host of src/lua/runtime.rs.                                *)
(*                                                                         *)
(* Strings are sequences of characters.  The characters that matter to     *)
(* JSON and to C strings are kept apart (quote, backslash, newline, NUL);  *)
(* "a" stands for every other character.  A run of harmless characters     *)
(* that the code writes as a literal ("status", "Error", ...) is one       *)
(* element of the sequence.                                                *)
(***************************************************************************)
EXTENDS Integers, Sequences, FiniteSets, TLC

\* ------------------------------------------------------------- bounds
\* longest text (diagnostic, response body, error message) the model draws
MaxText == 2
\* the monotonic clock is cut off here
MaxClock == 2
\* most headers in a request
MaxHeaders == 2
\* calls of pigeon_load_config / pigeon_reload_config during one run
MaxCalls == 3
\* changes of the file system and the environment during one run
MaxChanges == 2
\* ... of which so many while two threads are calling concurrently
MaxRacingChanges == 1

\* ------------------------------------------------------------- characters
QUOTE == "\""
BSLASH == "\\"
NL == "\n"
NUL == "NUL"
WS == " "

Chars == {"a", QUOTE, BSLASH, NL, NUL}

RECURSIVE SeqsUpTo(_, _)
SeqsUpTo(S, n) ==
    IF n = 0 THEN {<<>>}
    ELSE LET shorter == SeqsUpTo(S, n - 1)
         IN  shorter \cup {Append(s, c) : s \in shorter, c \in S}

Texts == SeqsUpTo(Chars, MaxText)

Contains(s, c) == \E i \in 1..Len(s) : s[i] = c

\* ------------------------------------------------------------- numbers
Digits == <<"0", "1", "2", "3", "4", "5", "6", "7", "8", "9">>

DigitValue(c) == CHOOSE d \in 0..9 : Digits[d + 1] = c

IsDigit(c) == \E d \in 0..9 : Digits[d + 1] = c

\* serde_json writes an unsigned integer in decimal
RECURSIVE FormatUnsigned(_)
FormatUnsigned(n) ==
    IF n < 10 THEN <<Digits[n + 1]>>
    ELSE FormatUnsigned(n \div 10) \o <<Digits[(n % 10) + 1]>>

\* ------------------------------------------------------------- JSON writer
\* serde_json's string escaping: quote, backslash, the control characters
EscapeChar(c) ==
    IF c = QUOTE THEN <<BSLASH, QUOTE>>
    ELSE IF c = BSLASH THEN <<BSLASH, BSLASH>>
    ELSE IF c = NL THEN <<BSLASH, "n">>
    ELSE IF c = NUL THEN <<BSLASH, "u", "0", "0", "0", "0">>
    ELSE <<c>>

RECURSIVE EscapeText(_)
EscapeText(s) ==
    IF s = <<>> THEN <<>> ELSE EscapeChar(Head(s)) \o EscapeText(Tail(s))

JsonString(s) == <<QUOTE>> \o EscapeText(s) \o <<QUOTE>>

JsonKey(k) == <<QUOTE, k, QUOTE, ":">>

\* Vec<(String, String)> is written as an array of two-element arrays
RECURSIVE JsonPairsFrom(_, _)
JsonPairsFrom(hs, i) ==
    IF i > Len(hs) THEN <<>>
    ELSE (IF i > 1 THEN <<",">> ELSE <<>>)
         \o <<"[">> \o JsonString(hs[i][1]) \o <<",">> \o JsonString(hs[i][2]) \o <<"]">>
         \o JsonPairsFrom(hs, i + 1)

JsonPairs(hs) == <<"[">> \o JsonPairsFrom(hs, 1) \o <<"]">>

\* ------------------------------------------------------------- JSON reader
\* What a JSON reader makes of the text: used to state what the foreign
\* caller can parse, never by the gateway itself.
Malformed == [malformed |-> TRUE]

Failed == [ok |-> FALSE]

\* reads string content from position i (after the opening quote) up to the
\* closing quote; a raw control character or an unknown escape is an error
RECURSIVE ScanString(_, _, _)
ScanString(t, i, acc) ==
    IF i > Len(t) THEN Failed
    ELSE IF t[i] = QUOTE THEN [ok |-> TRUE, next |-> i + 1, val |-> acc]
    ELSE IF t[i] \in {NL, NUL} THEN Failed
    ELSE IF t[i] = BSLASH THEN
        IF i + 1 > Len(t) THEN Failed
        ELSE IF t[i + 1] \in {QUOTE, BSLASH} THEN ScanString(t, i + 2, Append(acc, t[i + 1]))
        ELSE IF t[i + 1] = "n" THEN ScanString(t, i + 2, Append(acc, NL))
        ELSE IF /\ t[i + 1] = "u"
                /\ i + 5 <= Len(t)
                /\ \A k \in 2..5 : t[i + k] = "0"
             THEN ScanString(t, i + 6, Append(acc, NUL))
        ELSE Failed
    ELSE ScanString(t, i + 1, Append(acc, t[i]))

ReadString(t, i) ==
    IF i <= Len(t) /\ t[i] = QUOTE THEN ScanString(t, i + 1, <<>>) ELSE Failed

RECURSIVE ScanNumber(_, _, _)
ScanNumber(t, i, acc) ==
    IF i <= Len(t) /\ IsDigit(t[i]) THEN ScanNumber(t, i + 1, acc * 10 + DigitValue(t[i]))
    ELSE [ok |-> TRUE, next |-> i, val |-> acc]

\* JSON numbers have no leading zero
ReadNumber(t, i) ==
    IF i <= Len(t) /\ IsDigit(t[i]) /\ ~(t[i] = "0" /\ i + 1 <= Len(t) /\ IsDigit(t[i + 1]))
    THEN ScanNumber(t, i, 0)
    ELSE Failed

SkipSpace(t, i) == IF i <= Len(t) /\ t[i] = WS THEN i + 1 ELSE i

\* position after the literal elements lit at position i, or 0
ReadLiteral(t, i, lit) ==
    IF i + Len(lit) - 1 <= Len(t) /\ \A k \in 1..Len(lit) : t[i + k - 1] = lit[k]
    THEN i + Len(lit)
    ELSE 0

\* position after "key": at position i, or 0
ReadKey(t, i, k) ==
    LET j == ReadLiteral(t, i, <<QUOTE, k, QUOTE>>)
    IN  IF j = 0 THEN 0
        ELSE LET c == ReadLiteral(t, SkipSpace(t, j), <<":">>)
             IN  IF c = 0 THEN 0 ELSE SkipSpace(t, c)

\* the elements of [[k,v],...] from position i (after the opening bracket)
RECURSIVE ReadPairs(_, _, _)
ReadPairs(t, i, acc) ==
    IF i <= Len(t) /\ t[i] = "]" /\ acc = <<>> THEN [ok |-> TRUE, next |-> i + 1, val |-> acc]
    ELSE
        LET open == ReadLiteral(t, i, <<"[">>)
            k == IF open = 0 THEN Failed ELSE ReadString(t, open)
            comma == IF k.ok THEN ReadLiteral(t, k.next, <<",">>) ELSE 0
            v == IF comma = 0 THEN Failed ELSE ReadString(t, comma)
            close == IF v.ok THEN ReadLiteral(t, v.next, <<"]">>) ELSE 0
        IN  IF close = 0 \/ close > Len(t) THEN Failed
            ELSE IF t[close] = "]"
                 THEN [ok |-> TRUE, next |-> close + 1, val |-> Append(acc, <<k.val, v.val>>)]
            ELSE IF t[close] = ","
                 THEN ReadPairs(t, close + 1, Append(acc, <<k.val, v.val>>))
            ELSE Failed

\* the Response the text parses as, or Malformed
ParseResponse(t) ==
    LET p1 == ReadLiteral(t, 1, <<"{">>)
        p2 == IF p1 = 0 THEN 0 ELSE ReadKey(t, p1, "status")
        st == IF p2 = 0 THEN Failed ELSE ReadNumber(t, p2)
        p3 == IF st.ok THEN ReadLiteral(t, st.next, <<",">>) ELSE 0
        p4 == IF p3 = 0 THEN 0 ELSE ReadKey(t, p3, "statusText")
        tx == IF p4 = 0 THEN Failed ELSE ReadString(t, p4)
        p5 == IF tx.ok THEN ReadLiteral(t, tx.next, <<",">>) ELSE 0
        p6 == IF p5 = 0 THEN 0 ELSE ReadKey(t, p5, "headers")
        p7 == IF p6 = 0 THEN 0 ELSE ReadLiteral(t, p6, <<"[">>)
        hs == IF p7 = 0 THEN Failed ELSE ReadPairs(t, p7, <<>>)
        p8 == IF hs.ok THEN ReadLiteral(t, hs.next, <<",">>) ELSE 0
        p9 == IF p8 = 0 THEN 0 ELSE ReadKey(t, p8, "body")
        bd == IF p9 = 0 THEN Failed ELSE ReadString(t, p9)
        p10 == IF bd.ok THEN ReadLiteral(t, bd.next, <<",">>) ELSE 0
        p11 == IF p10 = 0 THEN 0 ELSE ReadKey(t, p10, "durationMs")
        du == IF p11 = 0 THEN Failed ELSE ReadNumber(t, p11)
        p12 == IF du.ok THEN ReadLiteral(t, du.next, <<"}">>) ELSE 0
    IN  IF p12 # Len(t) + 1 \/ st.val > 65535 THEN Malformed
        ELSE [body |-> bd.val, durationMs |-> du.val, headers |-> hs.val,
              status |-> st.val, statusText |-> tx.val]

\* the payload of load_config / reload_config as a JSON reader sees it:
\* {"success": true}, {"error": "<message>"} or Malformed
ParseConfigResult(t) ==
    LET p1 == ReadLiteral(t, 1, <<"{">>)
        ks == IF p1 = 0 THEN 0 ELSE ReadKey(t, p1, "success")
        tr == IF ks = 0 THEN 0 ELSE ReadLiteral(t, ks, <<"true", "}">>)
        ke == IF p1 = 0 THEN 0 ELSE ReadKey(t, p1, "error")
        msg == IF ke = 0 THEN Failed ELSE ReadString(t, ke)
        cl == IF msg.ok THEN ReadLiteral(t, msg.next, <<"}">>) ELSE 0
    IN  IF tr = Len(t) + 1 THEN [success |-> TRUE]
        ELSE IF cl = Len(t) + 1 THEN [error |-> msg.val]
        ELSE Malformed

\* ------------------------------------------------------------- lib.rs, the payloads
\* FfiResponse under serde_json::to_string (field names in camelCase)
SerializeResponse(r) ==
    <<"{">> \o JsonKey("status") \o FormatUnsigned(r.status)
    \o <<",">> \o JsonKey("statusText") \o JsonString(r.statusText)
    \o <<",">> \o JsonKey("headers") \o JsonPairs(r.headers)
    \o <<",">> \o JsonKey("body") \o JsonString(r.body)
    \o <<",">> \o JsonKey("durationMs") \o FormatUnsigned(r.durationMs)
    \o <<"}">>

\* a variant of ErrorResponse that reports failures as a 500
ErrorResponseAs500(message) ==
    [body |-> message, durationMs |-> 0, headers |-> <<>>,
     status |-> 500, statusText |-> <<"Error">>]

ErrorResponse(message) ==
    [body |-> message, durationMs |-> 0, headers |-> <<>>,
     status |-> 0, statusText |-> <<"Error">>]

\* a variant of json_error that splices the message into the text as format! would
json_error_unescaped(message) ==
    <<"{">> \o JsonKey("status") \o <<"0">>
    \o <<",">> \o JsonKey("statusText") \o <<QUOTE, "Error", QUOTE>>
    \o <<",">> \o JsonKey("headers") \o <<"[", "]">>
    \o <<",">> \o JsonKey("body") \o <<QUOTE>> \o message \o <<QUOTE>>
    \o <<",">> \o JsonKey("durationMs") \o <<"0">>
    \o <<"}">>

json_error(message) == SerializeResponse(ErrorResponse(message))

\* lib.rs 75: the literal json_error falls back on when its own serialization fails
SerializationFallback ==
    <<"{">> \o JsonKey("status") \o <<"0">>
    \o <<",">> \o JsonKey("statusText") \o <<QUOTE, "Error", QUOTE>>
    \o <<",">> \o JsonKey("headers") \o <<"[", "]">>
    \o <<",">> \o JsonKey("body") \o <<QUOTE, "serialization error", QUOTE>>
    \o <<",">> \o JsonKey("durationMs") \o <<"0">>
    \o <<"}">>

\* lib.rs 67-76: json_error when serde_json::to_string may fail
json_error_or_fallback(message, fails) ==
    IF fails THEN SerializationFallback ELSE json_error(message)

InteriorNulMessage == <<"Invalid string (interior NUL)">>

\* a variant of CStringText that lets the C reader stop at the first NUL
RECURSIVE CStringTextTruncated(_)
CStringTextTruncated(s) ==
    IF s = <<>> \/ Head(s) = NUL THEN <<>> ELSE <<Head(s)>> \o CStringTextTruncated(Tail(s))

\* CString::new refuses a string with a NUL in it; the fallback is json_error's text
CStringText(s) == IF Contains(s, NUL) THEN json_error(InteriorNulMessage) ELSE s


\* ------------------------------------------------------------- state
Threads == {"t1", "t2"}

NULL == 0

VARIABLES
    heap,        \* the live CString allocations: address -> text
    clock,       \* std::time::Instant, in milliseconds
    tokio,       \* TOKIO_RUNTIME: how many runtimes were built (0 = the OnceLock is empty)
    sendPc,      \* per thread: where its pigeon_send_request call stands
    sendReq,     \* per thread: the outgoing request built from the parsed FfiRequest
    sendStart,   \* per thread: `start`
    sendResp,    \* per thread: status, status text and headers taken from `resp`
    sendRet,     \* per thread: the pointer pigeon_send_request returned
    sendSeen,    \* per thread: what the transport did in this call (history)
    sendIn,      \* per thread: the input of this call (history)
    slot,        \* LUA_RUNTIME: the stored runtime, or 0 while the OnceLock is empty
    interp,      \* every LuaRuntime constructed so far, by number
    env,         \* what directory resolution gives at the moment
    fs,          \* per directory: the config.lua in it
    cfgPc,       \* per thread: where its load_config / reload_config call stands
    cfgOp,       \* per thread: which of the two it is
    cfgRt,       \* per thread: the runtime the call works on
    cfgScript,   \* per thread: the script source load_file has read
    cfgRet,      \* per thread: the pointer the call returned
    cfgSeen,     \* per thread: what this call met and did (history)
    loadOk,      \* some pigeon_load_config call has returned success (history)
    loadOkNoFile, \* ... and one of them had found no config.lua (history)
    reloadFailed, \* with the runtime stored, some pigeon_reload_config call failed (history)
    lastReload,  \* the script the last finished reload executed to its end, if it did (history)
    calls,       \* config calls begun so far
    changes,     \* changes of the file system and the environment so far
    workspace,   \* the GUI's Workspace: endpoints, headers, bodies, spaces
    active_space_id, \* LightweightPostman.active_space_id, NoId for None
    tasks,       \* the request tasks send_request has spawned and not yet joined
    uuids,       \* how many ids Uuid::new_v4 has handed out
    spawned      \* how many request tasks were spawned so far (history)

sendVars == <<clock, tokio, sendPc, sendReq, sendStart, sendResp, sendRet, sendSeen, sendIn>>

cfgVars == <<slot, interp, env, fs, cfgPc, cfgOp, cfgRt, cfgScript, cfgRet, cfgSeen,
             loadOk, loadOkNoFile, reloadFailed, lastReload, calls, changes>>

guiVars == <<workspace, active_space_id, tasks, uuids, spawned>>

vars == <<heap, sendVars, cfgVars, guiVars>>

\* ------------------------------------------------------------- lib.rs, pointers
\* a variant of FreshAddress that hands out the address of one static buffer
StaticAddress(h) == 1

\* CString::into_raw: a fresh allocation, never null
FreshAddress(h) == CHOOSE a \in 1..(Cardinality(DOMAIN h) + 1) : a \notin DOMAIN h

string_to_c_char_ptr(h, s) ==
    LET a == FreshAddress(h)
    IN  [heap |-> [x \in DOMAIN h \cup {a} |-> IF x = a THEN CStringText(s) ELSE h[x]], ptr |-> a]

\* the text the caller reads through a returned pointer
TextAt(ptr) == heap[ptr]

\* ------------------------------------------------------------- lib.rs, the request
NoBody == [content |-> <<>>, contentType |-> <<>>, present |-> FALSE]

\* http::Method::from_str: a standard verb, or any other token as an extension
\* method; only an empty or non-token string is an error
IsMethodToken(m) == m # <<>> /\ \A i \in 1..Len(m) : m[i] \notin {WS, QUOTE, BSLASH, NL, NUL}

ParseMethod(m) == IF IsMethodToken(m) THEN m ELSE <<"GET">>

\* a variant of EnabledHeaders that attaches every header
RECURSIVE AllHeaders(_)
AllHeaders(hs) ==
    IF hs = <<>> THEN <<>>
    ELSE <<[key |-> Head(hs).key, value |-> Head(hs).value]>> \o AllHeaders(Tail(hs))

\* lib.rs 121-125: the headers of the request in their order, the disabled ones skipped
RECURSIVE EnabledHeaders(_)
EnabledHeaders(hs) ==
    IF hs = <<>> THEN <<>>
    ELSE IF Head(hs).enabled
         THEN <<[key |-> Head(hs).key, value |-> Head(hs).value]>> \o EnabledHeaders(Tail(hs))
         ELSE EnabledHeaders(Tail(hs))

\* str::trim().is_empty()
IsBlank(s) == \A i \in 1..Len(s) : s[i] \in {WS, NL}

\* a variant of BuildRequest that sets content type and payload whenever a
\* body is there
BuildRequestWholeBody(parsed) ==
    [headers |-> EnabledHeaders(parsed.headers)
                 \o (IF parsed.body.present
                     THEN <<[key |-> <<"Content-Type">>, value |-> parsed.body.contentType]>>
                     ELSE <<>>),
     method |-> ParseMethod(parsed.method),
     payload |-> [content |-> parsed.body.content, present |-> parsed.body.present],
     url |-> parsed.url]

\* the request handed to the transport (lib.rs 113-134)
BuildRequest(parsed) ==
    [headers |-> EnabledHeaders(parsed.headers)
                 \o (IF parsed.body.present /\ ~IsBlank(parsed.body.contentType)
                     THEN <<[key |-> <<"Content-Type">>, value |-> parsed.body.contentType]>>
                     ELSE <<>>),
     method |-> ParseMethod(parsed.method),
     payload |-> IF parsed.body.present /\ parsed.body.content # <<>>
                 THEN [content |-> parsed.body.content, present |-> TRUE]
                 ELSE [content |-> <<>>, present |-> FALSE],
     url |-> parsed.url]

NoRequest == [headers |-> <<>>, method |-> <<>>, payload |-> [content |-> <<>>, present |-> FALSE],
              url |-> <<>>]

\* the FfiRequest of an input that carries none
NoFfiRequest == [body |-> NoBody, headers |-> <<>>, method |-> <<>>, url |-> <<>>]

\* ------------------------------------------------------------- the request as JSON
\* a member of a JSON object: there with a value, or left out
Some(v) == [present |-> TRUE, value |-> v]

None == [present |-> FALSE, value |-> <<>>]

\* the JSON object of an input that carries none
NoJson == [body |-> None, headers |-> None, method |-> None, url |-> None]

\* lib.rs 44-46
default_true == TRUE

\* lib.rs 35-42: key and value as given, enabled by default
FfiHeader(h) ==
    [key |-> h.key, value |-> h.value,
     enabled |-> IF h.enabled = "absent" THEN default_true ELSE h.enabled = "true"]

RECURSIVE FfiHeaders(_)
FfiHeaders(hs) == IF hs = <<>> THEN <<>> ELSE <<FfiHeader(Head(hs))>> \o FfiHeaders(Tail(hs))

\* lib.rs 48-55: both fields default to the empty string
FfiBody(b) ==
    [content |-> IF b.content.present THEN b.content.value ELSE <<>>,
     contentType |-> IF b.contentType.present THEN b.contentType.value ELSE <<>>,
     present |-> TRUE]

\* the backquote serde puts around a field name
BQ == "BQ"

\* serde's message for a required field that is left out (the position in
\* the text, which follows it, is not carried)
MissingField(name) == <<"missing field ", BQ, name, BQ>>

\* lib.rs 25-33 under Deserialize: method and url are required, headers
\* default to the empty list, body is optional
FfiRequest(json) ==
    IF ~json.method.present
    THEN [ok |-> FALSE, err |-> MissingField("method"), req |-> NoFfiRequest]
    ELSE IF ~json.url.present
    THEN [ok |-> FALSE, err |-> MissingField("url"), req |-> NoFfiRequest]
    ELSE [ok |-> TRUE, err |-> <<>>,
          req |-> [body |-> IF json.body.present THEN FfiBody(json.body.value) ELSE NoBody,
                   headers |-> IF json.headers.present THEN FfiHeaders(json.headers.value)
                               ELSE <<>>,
                   method |-> json.method.value,
                   url |-> json.url.value]]

\* ------------------------------------------------------------- inputs
\* what the foreign caller passes: a null pointer, or bytes that are valid UTF-8
\* or not and that serde_json reads as an FfiRequest or rejects with a message
NullInput ==
    [json |-> FALSE, err |-> <<>>, req |-> NoFfiRequest, null |-> TRUE, obj |-> NoJson,
     utf8 |-> FALSE]

BadUtf8Input ==
    [json |-> FALSE, err |-> <<>>, req |-> NoFfiRequest, null |-> FALSE, obj |-> NoJson,
     utf8 |-> FALSE]

BadJsonInput(e) ==
    [json |-> FALSE, err |-> e, req |-> NoFfiRequest, null |-> FALSE, obj |-> NoJson,
     utf8 |-> TRUE]

RequestInput(r) ==
    [json |-> TRUE, err |-> <<>>, req |-> r, null |-> FALSE, obj |-> NoJson, utf8 |-> TRUE]

\* a JSON object, as serde_json::from_str reads it into an FfiRequest or rejects it
JsonInput(json) ==
    [json |-> FfiRequest(json).ok, err |-> FfiRequest(json).err,
     req |-> FfiRequest(json).req, null |-> FALSE, obj |-> json, utf8 |-> TRUE]

SimpleRequests ==
    { [body |-> NoBody, headers |-> <<>>, method |-> m, url |-> <<"http://example.test/">>]
        : m \in {<<"GET">>, <<>>} }

SendInputs ==
    {NullInput, BadUtf8Input}
    \cup {BadJsonInput(e) : e \in Texts}
    \cup {RequestInput(r) : r \in SimpleRequests}

\* Utf8Error's Display
Utf8ErrorText == <<"invalid utf-8 sequence">>

\* ------------------------------------------------------------- the async runtime
\* a variant of get_tokio_runtime without the OnceLock: every dispatch builds
\* a runtime of its own
get_tokio_runtime_each_time(built) == built + 1

\* lib.rs 16-23: OnceLock::get_or_init builds the runtime if the cell is empty
\* and hands out the one in the cell otherwise; the result is the number of
\* runtimes built so far, which also names the instance handed out
get_tokio_runtime(built) == IF built = 0 THEN 1 ELSE built

\* ------------------------------------------------------------- the transport
StatusCodes == {200, 404}

\* StatusCode's Display: the code and its canonical reason
StatusLine(code) ==
    FormatUnsigned(code) \o <<WS, IF code = 200 THEN "OK" ELSE "Not Found">>

ResponseHeaders == {<<>>, << <<<<"a">>, <<"a", QUOTE>>>> >>}

TransportErrors == {<<"error sending request">>, <<"builder error">>}

NoResp == [headers |-> <<>>, status |-> 0, statusText |-> <<>>, at |-> 0]

NothingSeen == [status |-> 0, elapsed |-> 0, failed |-> FALSE, fault |-> FALSE,
                http |-> FALSE, rt |-> 0, sends |-> 0, ser |-> "ok"]

\* ------------------------------------------------------------- pigeon_send_request
\* the call returns: string_to_c_char_ptr on the text, the caller holds the pointer
SendReturn(t, text) ==
    LET r == string_to_c_char_ptr(heap, text)
    IN  /\ heap' = r.heap
        /\ sendRet' = [sendRet EXCEPT ![t] = r.ptr]
        /\ sendPc' = [sendPc EXCEPT ![t] = "returned"]

\* a variant of ValidateInput that parses before it checks the encoding
ValidateInputParseFirst(in) ==
    IF in.null THEN [ok |-> FALSE, diag |-> <<"req_json is null">>]
    ELSE IF ~in.json THEN [ok |-> FALSE, diag |-> <<"invalid json: ">> \o in.err]
    ELSE IF ~in.utf8 THEN [ok |-> FALSE, diag |-> <<"invalid utf-8: ">> \o Utf8ErrorText]
    ELSE [ok |-> TRUE, diag |-> <<>>]

\* lib.rs 96-109: the null check, then to_str, then serde_json::from_str; the
\* first that fails gives the diagnostic
ValidateInput(in) ==
    IF in.null THEN [ok |-> FALSE, diag |-> <<"req_json is null">>]
    ELSE IF ~in.utf8 THEN [ok |-> FALSE, diag |-> <<"invalid utf-8: ">> \o Utf8ErrorText]
    ELSE IF ~in.json THEN [ok |-> FALSE, diag |-> <<"invalid json: ">> \o in.err]
    ELSE [ok |-> TRUE, diag |-> <<>>]

\* lib.rs 95-137: validation, then the runtime, the request and the send.
\* `fault` is a panic inside the closure before the send is issued (building
\* the runtime, Client::new), which catch_unwind turns into an error payload.
SendRequestBegin(t, in, fault) ==
    /\ sendPc[t] = "idle"
    /\ UNCHANGED <<cfgVars, guiVars>>
    /\ sendIn' = [sendIn EXCEPT ![t] = in]
    /\ IF ~ValidateInput(in).ok THEN
            /\ SendReturn(t, json_error(ValidateInput(in).diag))
            /\ sendSeen' = [sendSeen EXCEPT ![t] = NothingSeen]
            /\ UNCHANGED <<clock, tokio, sendReq, sendStart, sendResp>>
       ELSE IF fault THEN
            /\ SendReturn(t, json_error(<<"panic in pigeon_send_request">>))
            /\ sendSeen' = [sendSeen EXCEPT ![t] = [NothingSeen EXCEPT !.fault = TRUE]]
            /\ UNCHANGED <<clock, tokio, sendReq, sendStart, sendResp>>
       ELSE
            /\ tokio' = get_tokio_runtime(tokio)
            /\ sendReq' = [sendReq EXCEPT ![t] = BuildRequest(in.req)]
            /\ sendStart' = [sendStart EXCEPT ![t] = clock]
            /\ sendSeen' = [sendSeen EXCEPT ![t] =
                    [NothingSeen EXCEPT !.sends = 1, !.rt = get_tokio_runtime(tokio)]]
            /\ sendPc' = [sendPc EXCEPT ![t] = "awaiting"]
            /\ UNCHANGED <<heap, clock, sendResp, sendRet>>

\* time passes
Tick ==
    /\ clock < MaxClock
    /\ clock' = clock + 1
    /\ UNCHANGED <<cfgVars, guiVars>>
    /\ UNCHANGED <<heap, tokio, sendPc, sendReq, sendStart, sendResp, sendRet, sendSeen, sendIn>>

\* a variant of SendsAfterError that sends the request once more before it gives up
SendsAfterErrorRetry(sends) == sends + 1

\* lib.rs 158: the Err arm of req.send().await builds the error payload and
\* issues no further send
SendsAfterError(sends) == sends

\* lib.rs 158: req.send() gave Err(e)
SendTransportError(t, e) ==
    /\ sendPc[t] = "awaiting"
    /\ UNCHANGED <<cfgVars, guiVars>>
    /\ SendReturn(t, json_error(<<"request failed: ">> \o e))
    /\ sendSeen' = [sendSeen EXCEPT ![t] =
                        [@ EXCEPT !.failed = TRUE, !.elapsed = clock - sendStart[t],
                                  !.sends = SendsAfterError(@)]]
    /\ UNCHANGED <<clock, tokio, sendReq, sendStart, sendResp, sendIn>>

\* a variant of BindResp that keeps the response in one place for all calls
BindRespShared(all, t, r) == [u \in Threads |-> r]

\* lib.rs 138-145: status, status_text and headers are locals of the call's own future
BindResp(all, t, r) == [all EXCEPT ![t] = r]

\* lib.rs 138-145: req.send() gave Ok(resp); status, status text and headers are taken
SendTransportResponse(t, code, hs) ==
    /\ sendPc[t] = "awaiting"
    /\ UNCHANGED <<cfgVars, guiVars>>
    /\ sendResp' = BindResp(sendResp, t,
                        [headers |-> hs, status |-> code, statusText |-> StatusLine(code),
                         at |-> clock])
    /\ sendSeen' = [sendSeen EXCEPT ![t] = [@ EXCEPT !.http = TRUE, !.status = code]]
    /\ sendPc' = [sendPc EXCEPT ![t] = "reading"]
    /\ UNCHANGED <<heap, clock, tokio, sendReq, sendStart, sendRet, sendIn>>

\* a variant of duration_ms that stops the clock when the response arrived
duration_ms_at_response(start, got, now) == got - start

\* lib.rs 136, 147: start.elapsed() is taken after resp.text().await has ended
duration_ms(start, got, now) == now - start

\* a variant of ReadText that gives what had arrived when the first chunk was in
ReadTextFirstChunk(ok, text) == IF ok /\ text # <<>> THEN <<Head(text)>> ELSE <<>>

\* lib.rs 146: resp.text().await.unwrap_or_default(), the whole body or, when
\* reading it failed, the empty string
ReadText(ok, text) == IF ok THEN text ELSE <<>>

\* lib.rs 146-156: resp.text() ends (a failed read gives the empty body), the
\* duration is taken and the response serialized
SendBodyRead(t, ok, text) ==
    /\ sendPc[t] = "reading"
    /\ UNCHANGED <<cfgVars, guiVars>>
    /\ SendReturn(t, SerializeResponse(
            [body |-> ReadText(ok, text),
             durationMs |-> duration_ms(sendStart[t], sendResp[t].at, clock),
             headers |-> sendResp[t].headers,
             status |-> sendResp[t].status,
             statusText |-> sendResp[t].statusText]))
    /\ sendSeen' = [sendSeen EXCEPT ![t] = [@ EXCEPT !.elapsed = clock - sendStart[t]]]
    /\ UNCHANGED <<clock, tokio, sendReq, sendStart, sendResp, sendIn>>

\* lib.rs 149-156: the body is read but serde_json::to_string gives Err(e) for
\* the response; json_error reports it, and falls back on its literal when
\* its own serialization fails as well
SendBodyReadUnserializable(t, e, again) ==
    /\ sendPc[t] = "reading"
    /\ UNCHANGED <<cfgVars, guiVars>>
    /\ SendReturn(t, json_error_or_fallback(<<"serialize response failed: ">> \o e, again))
    /\ sendSeen' = [sendSeen EXCEPT ![t] =
                        [@ EXCEPT !.elapsed = clock - sendStart[t],
                                  !.ser = IF again THEN "both" ELSE "response"]]
    /\ UNCHANGED <<clock, tokio, sendReq, sendStart, sendResp, sendIn>>

\* lib.rs 177-184: the caller releases the pointer it holds
pigeon_free_string(h, ptr) ==
    IF ptr = NULL THEN h ELSE [x \in DOMAIN h \ {ptr} |-> h[x]]

SendRelease(t) ==
    /\ sendPc[t] = "returned"
    /\ UNCHANGED <<cfgVars, guiVars>>
    /\ heap' = pigeon_free_string(heap, sendRet[t])
    /\ sendPc' = [sendPc EXCEPT ![t] = "idle"]
    /\ sendRet' = [sendRet EXCEPT ![t] = NULL]
    /\ sendReq' = [sendReq EXCEPT ![t] = NoRequest]
    /\ sendResp' = [sendResp EXCEPT ![t] = NoResp]
    /\ sendStart' = [sendStart EXCEPT ![t] = 0]
    /\ sendSeen' = [sendSeen EXCEPT ![t] = NothingSeen]
    /\ sendIn' = [sendIn EXCEPT ![t] = NullInput]
    /\ UNCHANGED <<clock, tokio>>

\* ------------------------------------------------------------- the configuration host
Dirs == {"d1", "d2"}

\* the resolved directory as Path::display shows it; the second one lies under
\* a home directory whose name holds a double quote
DirPath(d) ==
    IF d = "d1" THEN <<"/home/a/.config/pigeon">> ELSE <<"/home/a", QUOTE, "/.config/pigeon">>

ConfigFile(d) == DirPath(d) \o <<"/config.lua">>

\* directory resolution: a directory, or no directory (lib.rs 197-223)
EnvStates == Dirs \cup {"fail"}

DirErrors == {<<"Failed to get config directory">>,
              <<"Failed to create config directory: ", "Permission denied (os error 13)">>}

\* config.lua: absent, a script that runs to its end, a script that faults
Scripts == {"none", "good", "bad"}

\* ... and a script that looks at what the interpreter holds: it raises an
\* error where it finds its own mark set, and sets the mark otherwise
HostScripts == Scripts \cup {"once"}

\* the Display of the error LuaRuntime::new fails with
ConstructErrors == {<<"memory error">>, <<"a">>}

NothingMet == [fault |-> FALSE, afterFailedLoad |-> FALSE, chunk |-> <<>>, failedAt |-> "none",
               failedBefore |-> FALSE, found |-> "none", foundFile |-> FALSE,
               loadOkBefore |-> FALSE, missing |-> FALSE, noFileBefore |-> FALSE,
               ran |-> 0, read |-> "none",
               repeat |-> FALSE, setupFail |-> "none", storedBefore |-> FALSE, vanished |-> FALSE]

\* ------------------------------------------------------------- the GUI's workspace
\* Option<Uuid>: None
NoId == 0

\* model.rs 124-135: Space::default() with the id Uuid::new_v4() gave; the
\* pending flag of main.rs 421 starts cleared
NewSpace(id) ==
    [id |-> id, selected_endpoint_id |-> NoId, selected_header_ids |-> <<>>,
     selected_body_id |-> NoId, history |-> <<>>, is_request_pending |-> FALSE]

\* model.rs 5-11, 25-32, 46-52: the structs Endpoint, Header and Body, without
\* their display names
Endpoint(id, method, url) == [method |-> method, url |-> url, id |-> id]

Header(id, key, value, enabled) == [key |-> key, value |-> value, enabled |-> enabled, id |-> id]

Body(id, content_type, content) == [content |-> content, id |-> id, content_type |-> content_type]

\* model.rs 76-81: the struct Workspace
Workspace(endpoints, headers, bodies, spaces) ==
    [headers |-> headers, endpoints |-> endpoints, bodies |-> bodies, spaces |-> spaces]

\* model.rs 84-113: Workspace::default(), one definition of each kind and one
\* space, with ids in the order they are made
DefaultWorkspace ==
    Workspace(<<Endpoint(1, <<"GET">>, <<"https://httpbin.org/get">>)>>,
              <<Header(2, <<"Content-Type">>, <<"application/json">>, TRUE)>>,
              <<Body(3, <<"application/json">>, <<"{}">>)>>,
              <<NewSpace(4)>>)

\* main.rs 167-181: LightweightPostman::new, no space active and nothing sent
GuiStart ==
    /\ workspace = DefaultWorkspace
    /\ active_space_id = NoId
    /\ tasks = <<>>
    /\ uuids = 4
    /\ spawned = 0

CfgIdle ==
    /\ slot = 0
    /\ interp = <<>>
    /\ env = "d1"
    /\ fs = [d \in {"d1", "d2"} |-> "none"]
    /\ cfgPc = [t \in Threads |-> "idle"]
    /\ cfgOp = [t \in Threads |-> "none"]
    /\ cfgRt = [t \in Threads |-> 0]
    /\ cfgScript = [t \in Threads |-> "none"]
    /\ cfgRet = [t \in Threads |-> NULL]
    /\ cfgSeen = [t \in Threads |-> NothingMet]
    /\ loadOk = FALSE
    /\ loadOkNoFile = FALSE
    /\ reloadFailed = FALSE
    /\ lastReload = "none"
    /\ calls = 0
    /\ changes = 0

SendInit ==
    /\ CfgIdle
    /\ GuiStart
    /\ heap = << >>
    /\ clock = 0
    /\ tokio = 0
    /\ sendPc = [t \in Threads |-> "idle"]
    /\ sendReq = [t \in Threads |-> NoRequest]
    /\ sendStart = [t \in Threads |-> 0]
    /\ sendResp = [t \in Threads |-> NoResp]
    /\ sendRet = [t \in Threads |-> NULL]
    /\ sendSeen = [t \in Threads |-> NothingSeen]
    /\ sendIn = [t \in Threads |-> NullInput]


\* one foreign thread calling pigeon_send_request and releasing what it gets
SendCallers == {"t1"}

SendNext ==
    \/ \E t \in SendCallers, in \in SendInputs, fault \in BOOLEAN : SendRequestBegin(t, in, fault)
    \/ Tick
    \/ \E t \in SendCallers, e \in TransportErrors : SendTransportError(t, e)
    \/ \E t \in SendCallers, code \in StatusCodes, hs \in ResponseHeaders :
            SendTransportResponse(t, code, hs)
    \/ \E t \in SendCallers, ok \in BOOLEAN, text \in Texts : SendBodyRead(t, ok, text)
    \/ \E t \in SendCallers : SendRelease(t)

SendSpec == SendInit /\ [][SendNext]_vars


\* ------------------------------------------------------------- pigeon_send_request, claims
ResponseFields == {"status", "statusText", "headers", "body", "durationMs"}

\* what the caller of thread t reads from the pointer it was given
Returned(t) == ParseResponse(TextAt(sendRet[t]))

\* C1: every call of pigeon_send_request, whatever its input and also when the
\* closure panics, returns a non-null pointer to a live string that parses as
\* a Response with exactly the fields status, statusText, headers, body,
\* durationMs.
C1_AlwaysAResponse ==
    \A t \in Threads : sendPc[t] = "returned" =>
        /\ sendRet[t] # NULL
        /\ sendRet[t] \in DOMAIN heap
        /\ Returned(t) # Malformed
        /\ DOMAIN Returned(t) = ResponseFields

\* a call rejected for invalid JSON whose diagnostic holds a quote and a
\* control character has returned
C1_Witness ==
    \E t \in Threads :
        /\ sendPc[t] = "returned"
        /\ ~sendIn[t].null /\ sendIn[t].utf8 /\ ~sendIn[t].json
        /\ sendIn[t].err = <<QUOTE, NUL>>
        /\ Returned(t) # Malformed
        /\ Returned(t).body = <<"invalid json: ", QUOTE, NUL>>

C3_Diagnostic(in) ==
    IF in.null THEN <<"req_json is null">>
    ELSE IF ~in.utf8 THEN <<"invalid utf-8: ">> \o Utf8ErrorText
    ELSE <<"invalid json: ">> \o in.err

C3_InputFails(in) == in.null \/ ~in.utf8 \/ ~in.json

\* C3: the input is checked for null, then for UTF-8, then against the Request
\* schema; an input failing any of them is answered at once with status 0,
\* statusText "Error", no headers, the diagnostic of the first failing check
\* and durationMs 0, and nothing is sent; a send is issued only for an input
\* that passes all three.
C3_ValidationOrder ==
    \A t \in Threads : sendPc[t] # "idle" =>
        /\ C3_InputFails(sendIn[t]) =>
                /\ sendPc[t] = "returned"
                /\ sendSeen[t].sends = 0
                /\ Returned(t) = [body |-> C3_Diagnostic(sendIn[t]), durationMs |-> 0,
                                  headers |-> <<>>,
                                  status |-> 0,
                                  statusText |-> <<"Error">>]
        /\ sendSeen[t].sends > 0 => ~C3_InputFails(sendIn[t])

\* an input that is neither valid UTF-8 nor a Request was answered with the
\* UTF-8 diagnostic
C3_Witness ==
    \E t \in Threads :
        /\ sendPc[t] = "returned"
        /\ ~sendIn[t].null /\ ~sendIn[t].utf8 /\ ~sendIn[t].json
        /\ Returned(t).body = <<"invalid utf-8: ">> \o Utf8ErrorText
        /\ sendSeen[t].sends = 0

\* C4 (as claimed): after a transport failure the returned durationMs is the
\* time elapsed from the start timestamp to the moment the error was obtained.
C4_FailureCarriesElapsed ==
    \A t \in Threads : (sendPc[t] = "returned" /\ sendSeen[t].failed) =>
        /\ Returned(t).status = 0
        /\ Returned(t).statusText = <<"Error">>
        /\ Returned(t).durationMs = sendSeen[t].elapsed


\* ------------------------------------------------------------- lib.rs, the config payloads
\* format!(r#"{{"error": "{}"}}"#, e): the message is spliced in as it is
ConfigError(message) ==
    <<"{", QUOTE, "error", QUOTE, ":", WS, QUOTE>> \o message \o <<QUOTE, "}">>

ConfigSuccess == <<"{", QUOTE, "success", QUOTE, ":", WS, "true", "}">>

NotInitialized == <<"Lua runtime not initialized">>

FileNotFound == <<"config file not found">>

\* a variant of LoadFilePrefix with the message of the construction failure
\* copied to the load failure
LoadFilePrefixCopied(op) ==
    IF op = "load" THEN <<"Failed to create Lua runtime: ">> ELSE <<"Failed to reload config: ">>

\* the outer message of the failure, by operation (lib.rs 248, 295)
LoadFilePrefix(op) ==
    IF op = "load" THEN <<"Failed to load config file: ">> ELSE <<"Failed to reload config: ">>

\* a variant of PanicPayload that prints the panic's own message, a string, with {:?}
PanicPayloadWithMessage(op) ==
    IF op = "load" THEN ConfigError(<<"panic in pigeon_load_config">>)
    ELSE ConfigError(<<"panic in pigeon_reload_config: ", QUOTE, "a", QUOTE>>)

\* catch_unwind's Err arm (lib.rs 263, 306-308); {:?} of the payload is Any { .. }
PanicPayload(op) ==
    IF op = "load" THEN ConfigError(<<"panic in pigeon_load_config">>)
    ELSE ConfigError(<<"panic in pigeon_reload_config: ", "Any { .. }">>)

\* anyhow's Display shows the outermost context only (runtime.rs 41, 46)
ReadErrorText(d) == <<"Failed to read lua script: ">> \o ConfigFile(d)

\* a variant of ExecErrorText that leaves the path out
ExecErrorTextBare(d) == <<"Failed to execute Lua script">>

ExecErrorText(d) == <<"Failed to execute Lua script: ">> \o ConfigFile(d)

\* runtime.rs 44: set_name(path.display().to_string()), the name of the chunk
ChunkName(d) == ConfigFile(d)

\* ------------------------------------------------------------- runtime.rs
\* a variant of stdlib: StdLib::ALL_SAFE, every library but debug
stdlib_all_safe == {"coroutine", "table", "io", "os", "string", "utf8", "math", "package"}

\* runtime.rs 19-24: the standard libraries the interpreter is opened with
stdlib == {"coroutine", "table", "string", "utf8", "math", "package"}

\* runtime.rs 59-71: the steps of LuaRuntime::setup, in their order
SetupSteps == <<"create_table", "config::setup", "plugin::setup", "globals.set">>

\* where the construction of a runtime can fail: Lua::new_with, or a step of setup
SetupFailures == {"Lua::new_with", "create_table", "config::setup", "plugin::setup", "globals.set"}

\* the steps of setup before step number i
RECURSIVE StepsBefore(_, _)
StepsBefore(failAt, i) ==
    IF i > Len(SetupSteps) \/ SetupSteps[i] = failAt THEN <<>>
    ELSE <<SetupSteps[i]>> \o StepsBefore(failAt, i + 1)

\* a variant of setup that goes on when the plugin registrar fails
setup_ignoring_plugin(failAt) ==
    IF failAt = "plugin::setup"
    THEN [ok |-> TRUE, done |-> <<"create_table", "config::setup", "globals.set">>]
    ELSE [ok |-> StepsBefore(failAt, 1) = SetupSteps, done |-> StepsBefore(failAt, 1)]

\* runtime.rs 59-71: LuaRuntime::setup; every step ends in `?`, so the first
\* that fails ends setup with its error
setup(failAt) == [ok |-> StepsBefore(failAt, 1) = SetupSteps, done |-> StepsBefore(failAt, 1)]

\* LuaRuntime::new: a fresh interpreter behind its own mutex, with its directory
NewRuntime(d) ==
    [setup |-> SetupSteps, dir |-> d, holder |-> "none", libs |-> stdlib, live |-> TRUE, ns |-> {},
     poisoned |-> FALSE]

\* runtime.rs 16-35: Lua::new_with, then setup; a failure of either is the
\* failure of new, and the interpreter made so far is dropped
LuaRuntime_new(d, failAt) ==
    IF failAt = "Lua::new_with" \/ ~setup(failAt).ok THEN [ok |-> FALSE, rt |-> NewRuntime(d)]
    ELSE [ok |-> TRUE, rt |-> [NewRuntime(d) EXCEPT !.setup = setup(failAt).done]]

\* a LuaRuntime that went out of scope
Dropped(r) ==
    [setup |-> <<>>, dir |-> r.dir, holder |-> "none", libs |-> {}, live |-> FALSE, ns |-> {},
     poisoned |-> FALSE]

\* the call returns: string_to_c_char_ptr on the text, the caller holds the pointer
CfgReturn(t, text) ==
    LET r == string_to_c_char_ptr(heap, text)
    IN  /\ heap' = r.heap
        /\ cfgRet' = [cfgRet EXCEPT ![t] = r.ptr]
        /\ cfgPc' = [cfgPc EXCEPT ![t] = "returned"]

\* a failing pigeon_load_config drops the runtime it constructed; a failing
\* pigeon_reload_config leaves the stored one alone
AfterFailure(t, r) == IF cfgOp[t] = "load" THEN Dropped(r) ELSE r

\* a variant of LoadAfterCheck that stores the runtime only after a script ran
LoadAfterCheckStoreOnlyLoaded(exists) == IF exists THEN "lock" ELSE "reply"

\* lib.rs 245-255: with a config.lua, load it first; without, go on to the store
LoadAfterCheck(exists) == IF exists THEN "lock" ELSE "store"

\* lib.rs 194-245: the directory, the runtime, and whether config.lua exists;
\* failAt is where the construction of the runtime fails, if it does
LoadConfigEnter(t, dirErr, failAt, newErr) ==
    /\ cfgPc[t] = "idle"
    /\ cfgOp' = [cfgOp EXCEPT ![t] = "load"]
    /\ calls < MaxCalls
    /\ calls' = calls + 1
    /\ cfgSeen' = [cfgSeen EXCEPT ![t] =
            [NothingMet EXCEPT !.foundFile = /\ env \in Dirs
                                             /\ LuaRuntime_new(env, failAt).ok
                                             /\ fs[env] # "none",
                               !.failedAt = IF env \notin Dirs THEN "dir"
                                            ELSE IF ~LuaRuntime_new(env, failAt).ok THEN "new"
                                            ELSE "none",
                               !.setupFail = IF env \in Dirs THEN failAt ELSE "none"]]
    /\ IF env \notin Dirs THEN
            /\ CfgReturn(t, ConfigError(dirErr))
            /\ UNCHANGED <<interp, cfgRt>>
       ELSE IF ~LuaRuntime_new(env, failAt).ok THEN
            /\ CfgReturn(t, ConfigError(<<"Failed to create Lua runtime: ">> \o newErr))
            /\ UNCHANGED <<interp, cfgRt>>
       ELSE
            /\ interp' = Append(interp, LuaRuntime_new(env, failAt).rt)
            /\ cfgRt' = [cfgRt EXCEPT ![t] = Len(interp) + 1]
            /\ cfgPc' = [cfgPc EXCEPT ![t] = LoadAfterCheck(fs[env] # "none")]
            /\ UNCHANGED <<heap, cfgRet>>
    /\ UNCHANGED <<slot, env, fs, cfgScript, loadOk, loadOkNoFile, reloadFailed, lastReload,
                   changes>>
    /\ UNCHANGED <<sendVars, guiVars>>

\* lib.rs 194-245 with a construction that either succeeds or fails as a whole
LoadConfigBegin(t, dirErr, made, newErr) ==
    LoadConfigEnter(t, dirErr, IF made THEN "none" ELSE "Lua::new_with", newErr)

\* history: the pigeon_reload_config call of thread u found the runtime stored
\* and has returned something else than the success payload
ReloadHasFailed(u) ==
    /\ cfgOp[u] = "reload"
    /\ cfgPc[u] = "returned"
    /\ cfgSeen[u].storedBefore
    /\ heap[cfgRet[u]] # ConfigSuccess

\* history: the pigeon_load_config call of thread u has returned the error of
\* a script that did not run to its end
LoadHasFailedOnScript(u) ==
    /\ cfgOp[u] = "load"
    /\ cfgPc[u] = "returned"
    /\ cfgSeen[u].failedAt = "exec"

\* history: some reload has failed before thread t begins its own
ReloadFailedBefore(t) == reloadFailed \/ \E u \in Threads \ {t} : ReloadHasFailed(u)

\* lib.rs 276-291: the stored runtime, and whether its config.lua exists
ReloadConfigBegin(t) ==
    /\ cfgPc[t] = "idle"
    /\ cfgOp' = [cfgOp EXCEPT ![t] = "reload"]
    /\ calls < MaxCalls
    /\ calls' = calls + 1
    /\ cfgSeen' = [cfgSeen EXCEPT ![t] =
            [NothingMet EXCEPT !.loadOkBefore = loadOk, !.noFileBefore = loadOkNoFile,
                               !.storedBefore = slot # 0,
                               !.missing = slot # 0 /\ fs[interp[slot].dir] = "none",
                               !.failedBefore = ReloadFailedBefore(t),
                               !.afterFailedLoad =
                                    \E u \in Threads \ {t} : LoadHasFailedOnScript(u),
                               !.found = IF slot # 0 THEN fs[interp[slot].dir] ELSE "none",
                               !.repeat = /\ slot # 0
                                          /\ lastReload # "none"
                                          /\ fs[interp[slot].dir] = lastReload]]
    /\ IF slot = 0 THEN
            /\ CfgReturn(t, ConfigError(NotInitialized))
            /\ UNCHANGED cfgRt
       ELSE IF fs[interp[slot].dir] = "none" THEN
            /\ CfgReturn(t, ConfigError(FileNotFound))
            /\ cfgRt' = [cfgRt EXCEPT ![t] = slot]
       ELSE
            /\ cfgRt' = [cfgRt EXCEPT ![t] = slot]
            /\ cfgPc' = [cfgPc EXCEPT ![t] = "lock"]
            /\ UNCHANGED <<heap, cfgRet>>
    /\ UNCHANGED <<slot, interp, env, fs, cfgScript, loadOk, loadOkNoFile, reloadFailed,
                   lastReload, changes>>
    /\ UNCHANGED <<sendVars, guiVars>>

\* runtime.rs 39: self.lua.lock().unwrap() -- waits for the mutex; a poisoned
\* mutex makes unwrap panic, which the catch_unwind of the caller answers
LoadFileLock(t) ==
    /\ cfgPc[t] = "lock"
    /\ interp[cfgRt[t]].holder = "none"
    /\ IF interp[cfgRt[t]].poisoned THEN
            /\ CfgReturn(t, PanicPayload(cfgOp[t]))
            /\ interp' = [interp EXCEPT ![cfgRt[t]] = AfterFailure(t, @)]
            /\ cfgSeen' = [cfgSeen EXCEPT ![t].fault = TRUE, ![t].failedAt = "panic"]
       ELSE
            /\ interp' = [interp EXCEPT ![cfgRt[t]].holder = t]
            /\ cfgPc' = [cfgPc EXCEPT ![t] = "read"]
            /\ UNCHANGED <<heap, cfgRet, cfgSeen>>
    /\ UNCHANGED <<slot, env, fs, cfgOp, cfgRt, cfgScript, loadOk, loadOkNoFile,
                   reloadFailed, lastReload, calls, changes>>
    /\ UNCHANGED <<sendVars, guiVars>>

\* a variant of DropGuard that leaves the mutex locked when the guard goes by
\* unwinding
DropGuardNotOnUnwind(r, unwinding) ==
    IF unwinding THEN [r EXCEPT !.poisoned = TRUE] ELSE [r EXCEPT !.holder = "none"]

\* runtime.rs 39-49: `lua` is a MutexGuard local to load_file, dropped at every
\* exit of the function; a drop while unwinding poisons the mutex
DropGuard(r, unwinding) == [r EXCEPT !.holder = "none", !.poisoned = @ \/ unwinding]

\* runtime.rs 40-41: read_to_string under the lock; a file that is gone is an
\* error that names the path, and the guard is dropped on the way out
LoadFileRead(t) ==
    /\ cfgPc[t] = "read"
    /\ LET d == interp[cfgRt[t]].dir
       IN  IF fs[d] = "none" THEN
                /\ CfgReturn(t, ConfigError(LoadFilePrefix(cfgOp[t]) \o ReadErrorText(d)))
                /\ interp' = [interp EXCEPT ![cfgRt[t]] =
                                    AfterFailure(t, DropGuard(@, FALSE))]
                /\ cfgSeen' = [cfgSeen EXCEPT ![t].vanished = TRUE, ![t].failedAt = "read"]
                /\ UNCHANGED cfgScript
           ELSE
                /\ cfgScript' = [cfgScript EXCEPT ![t] = fs[d]]
                /\ cfgSeen' = [cfgSeen EXCEPT ![t].read = fs[d]]
                /\ cfgPc' = [cfgPc EXCEPT ![t] = "exec"]
                /\ UNCHANGED <<heap, interp, cfgRet>>
    /\ UNCHANGED <<slot, env, fs, cfgOp, cfgRt, loadOk, loadOkNoFile, reloadFailed, lastReload,
                   calls, changes>>
    /\ UNCHANGED <<sendVars, guiVars>>

\* what a script has set in the namespace when its execution ends: the valid
\* script its registration, the faulting one what it set before the fault
Registers(script) ==
    IF script = "good" THEN {"p"} ELSE IF script = "once" THEN {"o"} ELSE {"q"}

\* whether the chunk runs to its end in an interpreter that holds ns
Runs(ns, script) == script = "good" \/ (script = "once" /\ "o" \notin ns)

\* a variant of RunScript that executes the chunk in an emptied namespace
RunScriptAfterReset(ns, script) == Registers(script)

\* runtime.rs 43-46: lua.load(&script).exec() runs the chunk in the interpreter
\* as it stands; what earlier executions set stays
RunScript(ns, script) == ns \cup Registers(script)

\* a variant of SlotAfterLoadFile that stores the runtime of a pigeon_load_config
\* as soon as its script was executed, whatever came of it
SlotAfterLoadFileStored(s, op, rt) == IF op = "load" /\ s = 0 THEN rt ELSE s

\* lib.rs 246-251 and 293-298: load_file and the handling of its result leave
\* LUA_RUNTIME as it is; the store is the statement after them (lib.rs 255)
SlotAfterLoadFile(s, op, rt) == s

\* runtime.rs 43-48: the chunk runs to its end under the lock.  A script that
\* faults either raises a Lua error, or makes a host function panic, which
\* unwinds through load_file and poisons the mutex.
LoadFileExec(t, panics) ==
    /\ cfgPc[t] = "exec"
    /\ cfgSeen' = [cfgSeen EXCEPT ![t].ran = @ + 1,
                                  ![t].fault = panics /\ ~Runs(interp[cfgRt[t]].ns, cfgScript[t]),
                                  ![t].failedAt =
                                        IF Runs(interp[cfgRt[t]].ns, cfgScript[t]) THEN "none"
                                        ELSE IF panics THEN "panic" ELSE "exec",
                                  ![t].chunk = ChunkName(interp[cfgRt[t]].dir)]
    /\ LET d == interp[cfgRt[t]].dir
       IN  IF Runs(interp[cfgRt[t]].ns, cfgScript[t]) THEN
                /\ interp' = [interp EXCEPT ![cfgRt[t]] =
                                    [DropGuard(@, FALSE) EXCEPT
                                            !.ns = RunScript(@, cfgScript[t])]]
                /\ IF cfgOp[t] = "load"
                   THEN /\ cfgPc' = [cfgPc EXCEPT ![t] = "store"]
                        /\ UNCHANGED <<heap, cfgRet>>
                   ELSE CfgReturn(t, ConfigSuccess)
           ELSE IF ~panics THEN
                /\ interp' = [interp EXCEPT ![cfgRt[t]] =
                                    AfterFailure(t, [DropGuard(@, FALSE) EXCEPT
                                                        !.ns = RunScript(@, cfgScript[t])])]
                /\ CfgReturn(t, ConfigError(LoadFilePrefix(cfgOp[t]) \o ExecErrorText(d)))
           ELSE
                /\ interp' = [interp EXCEPT ![cfgRt[t]] =
                                    AfterFailure(t, [DropGuard(@, TRUE) EXCEPT
                                                        !.ns = RunScript(@, cfgScript[t])])]
                /\ CfgReturn(t, PanicPayload(cfgOp[t]))
    /\ cfgScript' = [cfgScript EXCEPT ![t] = "none"]
    /\ slot' = SlotAfterLoadFile(slot, cfgOp[t], cfgRt[t])
    /\ UNCHANGED <<env, fs, cfgOp, cfgRt, loadOk, loadOkNoFile, reloadFailed, lastReload,
                   calls, changes>>
    /\ UNCHANGED <<sendVars, guiVars>>

\* a variant of LoadConfigStore that never fills the OnceLock
LoadConfigStoreNothing(t) ==
    /\ cfgPc[t] = "store"
    /\ interp' = [interp EXCEPT ![cfgRt[t]] = Dropped(@)]
    /\ cfgPc' = [cfgPc EXCEPT ![t] = "reply"]
    /\ UNCHANGED <<heap, slot, env, fs, cfgOp, cfgRt, cfgScript, cfgRet, cfgSeen, loadOk,
                   loadOkNoFile, reloadFailed, lastReload, calls, changes>>
    /\ UNCHANGED <<sendVars, guiVars>>

\* a variant of LoadConfigStore that puts the new runtime in the place of the
\* stored one
LoadConfigStoreReplacing(t) ==
    /\ cfgPc[t] = "store"
    /\ slot' = cfgRt[t]
    /\ interp' = IF slot = 0 THEN interp ELSE [interp EXCEPT ![slot] = Dropped(@)]
    /\ cfgPc' = [cfgPc EXCEPT ![t] = "reply"]
    /\ UNCHANGED <<heap, env, fs, cfgOp, cfgRt, cfgScript, cfgRet, cfgSeen, loadOk, loadOkNoFile,
                   reloadFailed, lastReload, calls, changes>>
    /\ UNCHANGED <<sendVars, guiVars>>

\* lib.rs 255: LUA_RUNTIME.set(runtime).ok() -- a full OnceLock hands the
\* runtime back, and it is dropped
LoadConfigStore(t) ==
    /\ cfgPc[t] = "store"
    /\ IF slot = 0
       THEN /\ slot' = cfgRt[t]
            /\ UNCHANGED interp
       ELSE /\ interp' = [interp EXCEPT ![cfgRt[t]] = Dropped(@)]
            /\ UNCHANGED slot
    /\ cfgPc' = [cfgPc EXCEPT ![t] = "reply"]
    /\ UNCHANGED <<heap, env, fs, cfgOp, cfgRt, cfgScript, cfgRet, cfgSeen, loadOk, loadOkNoFile,
                   reloadFailed, lastReload, calls, changes>>
    /\ UNCHANGED <<sendVars, guiVars>>

\* lib.rs 258: the success payload goes back to the caller
LoadConfigReply(t) ==
    /\ cfgPc[t] = "reply"
    /\ CfgReturn(t, ConfigSuccess)
    /\ loadOk' = TRUE
    /\ loadOkNoFile' = (loadOkNoFile \/ ~cfgSeen[t].foundFile)
    /\ UNCHANGED <<slot, interp, env, fs, cfgOp, cfgRt, cfgScript, cfgSeen, reloadFailed,
                   lastReload, calls, changes>>
    /\ UNCHANGED <<sendVars, guiVars>>

\* the caller releases the payload and is free to call again
CfgRelease(t) ==
    /\ cfgPc[t] = "returned"
    /\ heap' = pigeon_free_string(heap, cfgRet[t])
    /\ cfgPc' = [cfgPc EXCEPT ![t] = "idle"]
    /\ cfgOp' = [cfgOp EXCEPT ![t] = "none"]
    /\ cfgRt' = [cfgRt EXCEPT ![t] = 0]
    /\ cfgRet' = [cfgRet EXCEPT ![t] = NULL]
    /\ cfgSeen' = [cfgSeen EXCEPT ![t] = NothingMet]
    /\ reloadFailed' = (reloadFailed \/ ReloadHasFailed(t))
    /\ lastReload' = IF cfgOp[t] # "reload" THEN lastReload
                     ELSE IF heap[cfgRet[t]] = ConfigSuccess THEN cfgSeen[t].read
                     ELSE "none"
    /\ UNCHANGED <<slot, interp, env, fs, cfgScript, loadOk, loadOkNoFile, calls, changes>>
    /\ UNCHANGED <<sendVars, guiVars>>

\* the environment: the home directory or ~/.config changes, so that
\* resolution gives another directory or none
SetEnv(e) ==
    /\ env # e
    /\ changes < MaxChanges
    /\ changes' = changes + 1
    /\ env' = e
    /\ UNCHANGED <<heap, slot, interp, fs, cfgPc, cfgOp, cfgRt, cfgScript, cfgRet, cfgSeen,
                   loadOk, loadOkNoFile, reloadFailed, lastReload, calls>>
    /\ UNCHANGED <<sendVars, guiVars>>

\* the environment: config.lua is written, replaced or removed
WriteConfig(d, c) ==
    /\ fs[d] # c
    /\ changes < MaxChanges
    /\ changes' = changes + 1
    /\ fs' = [fs EXCEPT ![d] = c]
    /\ UNCHANGED <<heap, slot, interp, env, cfgPc, cfgOp, cfgRt, cfgScript, cfgRet, cfgSeen,
                   loadOk, loadOkNoFile, reloadFailed, lastReload, calls>>
    /\ UNCHANGED <<sendVars, guiVars>>

\* the process starts with both OnceLocks empty, in whatever environment
CfgInit ==
    /\ heap = << >>
    /\ clock = 0
    /\ tokio = 0
    /\ sendPc = [t \in Threads |-> "idle"]
    /\ sendReq = [t \in Threads |-> NoRequest]
    /\ sendStart = [t \in Threads |-> 0]
    /\ sendResp = [t \in Threads |-> NoResp]
    /\ sendRet = [t \in Threads |-> NULL]
    /\ sendSeen = [t \in Threads |-> NothingSeen]
    /\ sendIn = [t \in Threads |-> NullInput]
    /\ GuiStart
    /\ slot = 0
    /\ interp = <<>>
    /\ env \in EnvStates
    /\ fs \in [Dirs -> Scripts]
    /\ cfgPc = [t \in Threads |-> "idle"]
    /\ cfgOp = [t \in Threads |-> "none"]
    /\ cfgRt = [t \in Threads |-> 0]
    /\ cfgScript = [t \in Threads |-> "none"]
    /\ cfgRet = [t \in Threads |-> NULL]
    /\ cfgSeen = [t \in Threads |-> NothingMet]
    /\ loadOk = FALSE
    /\ loadOkNoFile = FALSE
    /\ reloadFailed = FALSE
    /\ lastReload = "none"
    /\ calls = 0
    /\ changes = 0

\* foreign threads calling pigeon_load_config and pigeon_reload_config, and
\* the file system and environment changing under them
CfgNext ==
    \/ \E t \in Threads, dirErr \in DirErrors, made \in BOOLEAN, newErr \in ConstructErrors :
            LoadConfigBegin(t, dirErr, made, newErr)
    \/ \E t \in Threads : ReloadConfigBegin(t)
    \/ \E t \in Threads : LoadFileLock(t)
    \/ \E t \in Threads : LoadFileRead(t)
    \/ \E t \in Threads, panics \in BOOLEAN : LoadFileExec(t, panics)
    \/ \E t \in Threads : LoadConfigStore(t)
    \/ \E t \in Threads : LoadConfigReply(t)
    \/ \E t \in Threads : CfgRelease(t)
    \/ \E e \in EnvStates : changes < MaxRacingChanges /\ SetEnv(e)
    \/ \E d \in Dirs, c \in Scripts : changes < MaxRacingChanges /\ WriteConfig(d, c)

CfgSpec == CfgInit /\ [][CfgNext]_vars

\* one foreign thread calling pigeon_load_config and pigeon_reload_config one
\* call after the other, and the file system and environment changing
HostCallers == {"t1"}

HostNext ==
    \/ \E t \in HostCallers, dirErr \in DirErrors, made \in BOOLEAN, newErr \in ConstructErrors :
            LoadConfigBegin(t, dirErr, made, newErr)
    \/ \E t \in HostCallers : ReloadConfigBegin(t)
    \/ \E t \in HostCallers : LoadFileLock(t)
    \/ \E t \in HostCallers : LoadFileRead(t)
    \/ \E t \in HostCallers, panics \in BOOLEAN : LoadFileExec(t, panics)
    \/ \E t \in HostCallers : LoadConfigStore(t)
    \/ \E t \in HostCallers : LoadConfigReply(t)
    \/ \E t \in HostCallers : CfgRelease(t)
    \/ \E e \in EnvStates : SetEnv(e)
    \/ \E d \in Dirs, c \in HostScripts : WriteConfig(d, c)

HostSpec == CfgInit /\ [][HostNext]_vars


\* ------------------------------------------------------------- the configuration host, claims
\* what the caller of thread t reads from the pointer it was given
ConfigResult(t) == ParseConfigResult(TextAt(cfgRet[t]))

ReloadReturned(t) == cfgOp[t] = "reload" /\ cfgPc[t] = "returned"

LoadReturned(t) == cfgOp[t] = "load" /\ cfgPc[t] = "returned"

\* C5 (as claimed): whatever message they embed, pigeon_load_config and
\* pigeon_reload_config return a syntactically valid JSON object, either
\* {"success":true} or {"error":"<message>"}.
C5_ConfigResultIsJson ==
    \A t \in Threads : cfgPc[t] = "returned" => ConfigResult(t) # Malformed

\* C6 (as claimed): over any sequence of load_config and reload_config calls
\* at most one interpreter is ever constructed in the process.
C6_SingleInterpreter == Len(interp) <= 1

\* C7 (as claimed): under any interleaving of load_config and reload_config
\* calls at most one configuration-script execution is in progress.
C7_OneExecutionAtATime == Cardinality({t \in Threads : cfgPc[t] = "exec"}) <= 1

\* C8 (as claimed): pigeon_reload_config answers "Lua runtime not initialized"
\* exactly when no pigeon_load_config call has returned success before it.
C8_NotInitIffNoLoadReturned ==
    \A t \in Threads : ReloadReturned(t) =>
        (ConfigResult(t) = [error |-> NotInitialized] <=> ~cfgSeen[t].loadOkBefore)

\* C8 (amended): pigeon_reload_config answers "Lua runtime not initialized"
\* exactly when no pigeon_load_config had stored the runtime when the reload
\* read the slot; every load_config that has returned success has stored it
\* before, so no reload after a successful load_config gets that answer.
C8_NotInitIffNothingStored ==
    /\ loadOk => slot # 0
    /\ \A t \in Threads : ReloadReturned(t) =>
        /\ ConfigResult(t) = [error |-> NotInitialized] <=> ~cfgSeen[t].storedBefore
        /\ cfgSeen[t].loadOkBefore => cfgSeen[t].storedBefore
        /\ cfgSeen[t].loadOkBefore => ConfigResult(t) # [error |-> NotInitialized]

\* a reload that began after a load_config had stored the runtime and before
\* any load_config had returned did not get the not-initialized answer
C8_Witness ==
    \E t \in Threads :
        /\ ReloadReturned(t)
        /\ cfgSeen[t].storedBefore
        /\ ~cfgSeen[t].loadOkBefore
        /\ ConfigResult(t) = [error |-> FileNotFound]

\* C9: a pigeon_load_config that finds no config.lua in the resolved directory
\* returns success and has run no script, and the runtime is stored; a reload
\* begun after such a load never answers "Lua runtime not initialized", and
\* answers "config file not found" when the file is missing at its check.
C9_LoadWithoutScript ==
    /\ \A t \in Threads :
        (LoadReturned(t) /\ cfgRt[t] # 0 /\ ~cfgSeen[t].foundFile) =>
            /\ ConfigResult(t) = [success |-> TRUE]
            /\ cfgSeen[t].ran = 0
            /\ slot # 0
    /\ \A t \in Threads :
        (ReloadReturned(t) /\ cfgSeen[t].noFileBefore) =>
            /\ ConfigResult(t) # [error |-> NotInitialized]
            /\ cfgSeen[t].missing => ConfigResult(t) = [error |-> FileNotFound]

\* after a load_config that found no script, a reload reported the missing file
C9_Witness ==
    \E t \in Threads :
        /\ ReloadReturned(t)
        /\ cfgSeen[t].noFileBefore
        /\ cfgSeen[t].missing
        /\ ConfigResult(t) = [error |-> FileNotFound]
        /\ \A i \in 1..Len(interp) : interp[i].ns = {}

\* C10 (as claimed): with the runtime initialized, a reload that finds the
\* script file gone -- at its check, or removed while the call is under way --
\* answers "config file not found" and executes nothing.
C10_MissingFileIsReported ==
    \A t \in Threads :
        (ReloadReturned(t) /\ cfgSeen[t].storedBefore
            /\ (cfgSeen[t].missing \/ cfgSeen[t].vanished)) =>
            /\ ConfigResult(t) = [error |-> FileNotFound]
            /\ cfgSeen[t].ran = 0

\* a returned reload that found the runtime stored and a script that runs to
\* its end in place, and that read no other script than that
ReloadOfValidScript(t) ==
    /\ ReloadReturned(t)
    /\ cfgSeen[t].storedBefore
    /\ cfgSeen[t].found = "good"
    /\ ~cfgSeen[t].vanished
    /\ cfgSeen[t].read \in {"none", "good"}

C12_ReloadKeepsInterpreter ==
    [][slot # 0 =>
        /\ slot' = slot
        /\ interp'[slot].live
        /\ interp[slot].ns \subseteq interp'[slot].ns]_vars

\* a reload has executed in the stored interpreter, whose namespace holds what
\* two different executions registered
C12_Witness ==
    \E t \in Threads :
        /\ ReloadReturned(t)
        /\ cfgSeen[t].ran = 1
        /\ cfgRt[t] = slot
        /\ interp[slot].live
        /\ interp[slot].ns = {"p", "q"}

\* C13 (as claimed): a reload that follows a successful reload and meets the
\* script that one executed, unchanged, returns the success payload too.
C13_ReloadIsIdempotent ==
    \A t \in Threads :
        (/\ ReloadReturned(t)
         /\ cfgSeen[t].repeat
         /\ ~cfgSeen[t].vanished
         /\ cfgSeen[t].read \in {"none", cfgSeen[t].found}) =>
            ConfigResult(t) = [success |-> TRUE]

\* ------------------------------------------------------------- requests of every shape
Url == <<"http://example.test/">>

\* method strings: standard verbs, the same in other letter case, the empty
\* string and a string with a space in it
Methods == {<<"GET">>, <<"get">>, <<"POST">>, <<"Post">>, <<>>, <<"GET", WS, "a">>}

\* headers as JSON objects: enabled is true, false or left out
JsonHeaders ==
    [key : {<<"X-A">>, <<"X-B">>}, value : {<<"1">>}, enabled : {"true", "false", "absent"}]

\* bodies as JSON objects: each field is left out, empty, blank or filled
JsonBodies ==
    [contentType : {None, Some(<<>>), Some(<<WS>>), Some(<<"text/plain">>),
                    Some(<<WS, "text/plain">>)},
     content : {None, Some(<<>>), Some(<<"a">>), Some(<<WS>>)}]

\* requests that differ in one member at a time
JsonRequests ==
    {[body |-> None, headers |-> hs, method |-> Some(<<"GET">>), url |-> Some(Url)]
        : hs \in {None} \cup {Some(h) : h \in SeqsUpTo(JsonHeaders, MaxHeaders)}}
    \cup {[body |-> Some(b), headers |-> hs, method |-> Some(<<"POST">>), url |-> Some(Url)]
        : hs \in {None, Some(<<[key |-> <<"X-A">>, value |-> <<"1">>, enabled |-> "true"]>>)},
          b \in JsonBodies}
    \cup {[body |-> None, headers |-> None, method |-> m, url |-> Some(Url)]
        : m \in {None} \cup {Some(x) : x \in Methods}}
    \cup {[body |-> None, headers |-> None, method |-> Some(<<"GET">>), url |-> None]}

RequestInputs == {JsonInput(j) : j \in JsonRequests}

\* one foreign thread sending requests of every shape; the transport answers
\* each in one of a few ways
RequestNext ==
    \/ \E t \in SendCallers, in \in RequestInputs, fault \in BOOLEAN :
            SendRequestBegin(t, in, fault)
    \/ Tick
    \/ \E t \in SendCallers, e \in TransportErrors : SendTransportError(t, e)
    \/ \E t \in SendCallers, code \in StatusCodes : SendTransportResponse(t, code, <<>>)
    \/ \E t \in SendCallers, ok \in BOOLEAN : SendBodyRead(t, ok, <<"a">>)
    \/ \E t \in SendCallers : SendRelease(t)

RequestSpec == SendInit /\ [][RequestNext]_vars

\* ------------------------------------------------------------- the request, claims
\* the headers member of the JSON object thread t passed
GivenHeaders(t) ==
    IF sendIn[t].obj.headers.present THEN sendIn[t].obj.headers.value ELSE <<>>

NotDisabled(h) == h.enabled # "false"

\* the headers of the outgoing request that follow those of the headers member
SentFromBody(t) ==
    SubSeq(sendReq[t].headers, Len(SelectSeq(GivenHeaders(t), NotDisabled)) + 1,
           Len(sendReq[t].headers))

\* C14: the outgoing request carries the headers whose enabled flag is true
\* or left out, each with its key and value, in the order given, and no header
\* whose flag is false; what follows them is the content type of the body.
C14_OnlyEnabledHeaders ==
    \A t \in Threads : sendSeen[t].sends = 1 =>
        LET kept == SelectSeq(GivenHeaders(t), NotDisabled)
        IN  /\ Len(sendReq[t].headers) >= Len(kept)
            /\ \A i \in 1..Len(kept) :
                    sendReq[t].headers[i] = [key |-> kept[i].key, value |-> kept[i].value]
            /\ \A i \in 1..Len(SentFromBody(t)) : SentFromBody(t)[i].key = <<"Content-Type">>

\* a request with a disabled header before one whose flag is left out went
\* out with the second one only
C14_Witness ==
    \E t \in Threads :
        /\ sendSeen[t].sends = 1
        /\ GivenHeaders(t) = <<[key |-> <<"X-A">>, value |-> <<"1">>, enabled |-> "false"],
                               [key |-> <<"X-B">>, value |-> <<"1">>, enabled |-> "absent"]>>
        /\ sendReq[t].headers = <<[key |-> <<"X-B">>, value |-> <<"1">>]>>

\* str::trim, written out
RECURSIVE TrimStart(_)
TrimStart(s) == IF s # <<>> /\ Head(s) \in {WS, NL} THEN TrimStart(Tail(s)) ELSE s

RECURSIVE TrimEnd(_)
TrimEnd(s) ==
    IF s # <<>> /\ s[Len(s)] \in {WS, NL} THEN TrimEnd(SubSeq(s, 1, Len(s) - 1)) ELSE s

Trim(s) == TrimEnd(TrimStart(s))

\* the body member of the JSON object thread t passed, its fields defaulted
GivenBody(t) ==
    LET b == sendIn[t].obj.body
    IN  [content |-> IF b.present /\ b.value.content.present
                     THEN b.value.content.value ELSE <<>>,
         contentType |-> IF b.present /\ b.value.contentType.present
                         THEN b.value.contentType.value ELSE <<>>,
         present |-> b.present]

\* C15: with a body, the outgoing request gets the body's content type as a
\* Content-Type header exactly when the trimmed contentType is non-empty, and a
\* payload exactly when content is non-empty; without a body it gets neither.
C15_BodyParts ==
    \A t \in Threads : sendSeen[t].sends = 1 =>
        /\ IF GivenBody(t).present /\ Trim(GivenBody(t).contentType) # <<>>
           THEN /\ Len(SentFromBody(t)) = 1
                /\ SentFromBody(t)[1].key = <<"Content-Type">>
                /\ Trim(SentFromBody(t)[1].value) = Trim(GivenBody(t).contentType)
           ELSE SentFromBody(t) = <<>>
        /\ sendReq[t].payload.present <=> (GivenBody(t).present /\ GivenBody(t).content # <<>>)
        /\ sendReq[t].payload.present => sendReq[t].payload.content = GivenBody(t).content

\* a request with a body of blank content type and no content went out with
\* the user's header only and without a payload
C15_Witness ==
    \E t \in Threads :
        /\ sendSeen[t].sends = 1
        /\ sendIn[t].obj.body = Some([content |-> Some(<<>>), contentType |-> Some(<<WS>>)])
        /\ sendIn[t].obj.headers.present
        /\ sendReq[t].headers = <<[key |-> <<"X-A">>, value |-> <<"1">>]>>
        /\ ~sendReq[t].payload.present

\* thread t passed a JSON object that has its url, and no fault struck the call
C16_WellFormedButMethod(t) ==
    /\ sendPc[t] # "idle"
    /\ sendIn[t].obj.url.present
    /\ ~sendSeen[t].fault

\* C16 (as claimed): a request whose method is left out or does not parse is
\* sent, as GET; the method member alone never makes the call return an error
\* payload without sending.
C16_MethodNeverFails ==
    \A t \in Threads : C16_WellFormedButMethod(t) =>
        /\ sendSeen[t].sends = 1
        /\ (~sendIn[t].obj.method.present \/ ~IsMethodToken(sendIn[t].obj.method.value)) =>
                sendReq[t].method = <<"GET">>

\* the letters of a method string in upper case
C17_UpperCase(m) ==
    [i \in 1..Len(m) |->
        IF m[i] = "get" THEN "GET"
        ELSE IF m[i] \in {"post", "Post"} THEN "POST"
        ELSE IF m[i] = "a" THEN "A"
        ELSE m[i]]

\* C17 (as claimed): the verb a request is sent with is the verb the same
\* request with its method in upper case is sent with.
C17_MethodCaseInsensitive ==
    \A t \in Threads : (sendSeen[t].sends = 1 /\ sendIn[t].obj.method.present) =>
        sendReq[t].method =
            BuildRequest([sendIn[t].req EXCEPT !.method = C17_UpperCase(@)]).method

\* ------------------------------------------------------------- ownership of the returned strings
\* lib.rs 178-180: the caller passes a null pointer to pigeon_free_string
FreeNull ==
    /\ heap' = pigeon_free_string(heap, NULL)
    /\ UNCHANGED <<sendVars, cfgVars, guiVars>>

\* one foreign thread sends requests while another loads and reloads the
\* configuration; each releases what it was given
ConfigCallers == {"t2"}

OwnershipNext ==
    \/ \E t \in SendCallers, in \in {NullInput} \cup {RequestInput(r) : r \in SimpleRequests},
          fault \in BOOLEAN : SendRequestBegin(t, in, fault)
    \/ \E t \in SendCallers, e \in TransportErrors : SendTransportError(t, e)
    \/ \E t \in SendCallers, code \in StatusCodes : SendTransportResponse(t, code, <<>>)
    \/ \E t \in SendCallers, ok \in BOOLEAN : SendBodyRead(t, ok, <<"a", NUL>>)
    \/ \E t \in SendCallers : SendRelease(t)
    \/ \E t \in ConfigCallers, dirErr \in DirErrors, made \in BOOLEAN, newErr \in ConstructErrors :
            LoadConfigBegin(t, dirErr, made, newErr)
    \/ \E t \in ConfigCallers : ReloadConfigBegin(t)
    \/ \E t \in ConfigCallers : LoadFileLock(t)
    \/ \E t \in ConfigCallers : LoadFileRead(t)
    \/ \E t \in ConfigCallers, panics \in BOOLEAN : LoadFileExec(t, panics)
    \/ \E t \in ConfigCallers : LoadConfigStore(t)
    \/ \E t \in ConfigCallers : LoadConfigReply(t)
    \/ \E t \in ConfigCallers : CfgRelease(t)
    \/ FreeNull

OwnershipSpec == CfgInit /\ [][OwnershipNext]_vars

\* the pointers the callers hold and have not released
HeldPointers ==
    {sendRet[t] : t \in {u \in Threads : sendPc[u] = "returned"}}
    \cup {cfgRet[t] : t \in {u \in Threads : cfgPc[u] = "returned"}}

\* how many calls have returned a pointer that is not yet released
HeldCount ==
    Cardinality({u \in Threads : sendPc[u] = "returned"})
    + Cardinality({u \in Threads : cfgPc[u] = "returned"})

\* C18: every pointer a call has returned is non-null, points to a live
\* allocation of its own (no two unreleased pointers are the same), so its one
\* release finds it allocated; pigeon_free_string(null) changes nothing.
C18_ReturnedPointersAreOwned ==
    /\ NULL \notin HeldPointers
    /\ HeldPointers \subseteq DOMAIN heap
    /\ Cardinality(HeldPointers) = HeldCount
    /\ pigeon_free_string(heap, NULL) = heap

\* a send call and a reload call have both returned, and the two pointers,
\* neither released yet, are the two live allocations
C18_Witness ==
    /\ sendPc["t1"] = "returned"
    /\ cfgPc["t2"] = "returned"
    /\ cfgOp["t2"] = "reload"
    /\ sendRet["t1"] # cfgRet["t2"]
    /\ DOMAIN heap = {1, 2}

\* ------------------------------------------------------------- panics at the boundary
\* one foreign thread sends a request that may panic while another loads and
\* reloads a configuration that someone rewrites between the calls
PlainGet == [body |-> NoBody, headers |-> <<>>, method |-> <<"GET">>,
             url |-> <<"http://example.test/">>]

FaultNext ==
    \/ \E t \in SendCallers, fault \in BOOLEAN :
            SendRequestBegin(t, RequestInput(PlainGet), fault)
    \/ \E t \in SendCallers : SendTransportError(t, <<"error sending request">>)
    \/ \E t \in SendCallers : SendTransportResponse(t, 200, <<>>)
    \/ \E t \in SendCallers : SendBodyRead(t, TRUE, <<>>)
    \/ \E t \in SendCallers : SendRelease(t)
    \/ \E t \in ConfigCallers, made \in BOOLEAN :
            LoadConfigBegin(t, <<"Failed to get config directory">>, made, <<"memory error">>)
    \/ \E t \in ConfigCallers : ReloadConfigBegin(t)
    \/ \E t \in ConfigCallers : LoadFileLock(t)
    \/ \E t \in ConfigCallers : LoadFileRead(t)
    \/ \E t \in ConfigCallers, panics \in BOOLEAN : LoadFileExec(t, panics)
    \/ \E t \in ConfigCallers : LoadConfigStore(t)
    \/ \E t \in ConfigCallers : LoadConfigReply(t)
    \/ \E t \in ConfigCallers : CfgRelease(t)
    \/ \E d \in Dirs, c \in Scripts : changes < MaxRacingChanges /\ WriteConfig(d, c)

FaultSpec == CfgInit /\ [][FaultNext]_vars

\* the generic messages of the three calls
PanicMessages ==
    {<<"panic in pigeon_load_config">>, <<"panic in pigeon_reload_config: ", "Any { .. }">>}

\* C19: a call in which a panic was raised -- in pigeon_send_request, under
\* the interpreter lock, or by the lock found poisoned -- has returned to its
\* caller with an error payload that carries the generic message of the call.
C19_FaultsBecomePayloads ==
    /\ \A t \in Threads : sendSeen[t].fault =>
        /\ sendPc[t] = "returned"
        /\ Returned(t) # Malformed
        /\ Returned(t).status = 0
        /\ Returned(t).statusText = <<"Error">>
        /\ Returned(t).body = <<"panic in pigeon_send_request">>
    /\ \A t \in Threads : cfgSeen[t].fault =>
        /\ cfgPc[t] = "returned"
        /\ ConfigResult(t) # Malformed
        /\ ConfigResult(t) # [success |-> TRUE]
        /\ ConfigResult(t).error \in PanicMessages
    /\ \A t \in Threads :
        (cfgPc[t] = "returned" /\ cfgRt[t] # 0 /\ cfgSeen[t].ran = 0
            /\ interp[cfgRt[t]].poisoned /\ ~cfgSeen[t].missing /\ cfgOp[t] = "reload") =>
            cfgSeen[t].fault

\* a reload found the lock poisoned by an earlier panic and returned the
\* generic payload, while a send call that panicked has returned its own
C19_Witness ==
    /\ sendSeen["t1"].fault
    /\ cfgSeen["t2"].fault
    /\ cfgSeen["t2"].ran = 0
    /\ interp[slot].poisoned
    /\ ConfigResult("t2") = [error |-> <<"panic in pigeon_reload_config: ", "Any { .. }">>]

\* ------------------------------------------------------------- the async runtime, claims
\* both foreign threads send requests, valid or not, at the same time
DispatchNext ==
    \/ \E t \in Threads, in \in {NullInput, BadUtf8Input, RequestInput(PlainGet)},
          fault \in BOOLEAN : SendRequestBegin(t, in, fault)
    \/ Tick
    \/ \E t \in Threads : SendTransportError(t, <<"error sending request">>)
    \/ \E t \in Threads : SendTransportResponse(t, 200, <<>>)
    \/ \E t \in Threads : SendBodyRead(t, TRUE, <<>>)
    \/ \E t \in Threads : SendRelease(t)

DispatchSpec == SendInit /\ [][DispatchNext]_vars

\* thread t enters pigeon_send_request in this step
C20_Enters(t) == sendPc[t] = "idle" /\ sendPc'[t] # "idle"

\* C20: no step builds a second runtime or replaces the one built; a call that
\* dispatches is handed runtime 1, the only one there ever is, also while the
\* other thread is inside its own first call; a call rejected at input
\* validation leaves the cell as it found it.
C20_OneRuntime ==
    [][/\ tokio' \in {0, 1}
       /\ tokio = 1 => tokio' = 1
       /\ \A t \in Threads : C20_Enters(t) =>
            IF sendPc'[t] = "awaiting"
            THEN tokio' = 1 /\ sendSeen'[t].rt = 1
            ELSE tokio' = tokio]_vars

\* both threads are inside a dispatch at once, on the same runtime, and no
\* call before them had built it
C20_Witness ==
    /\ \A t \in Threads : sendPc[t] = "awaiting" /\ sendSeen[t].rt = 1
    /\ tokio = 1
    /\ heap = << >>

\* ------------------------------------------------------------- concurrent requests
UrlA == <<"http://example.test/a">>

UrlB == <<"http://example.test/b">>

GetOf(url) == [body |-> NoBody, headers |-> <<>>, method |-> <<"GET">>, url |-> url]

\* a server that answers each address in its own way and echoes it in the body
ServerStatus(url) == IF url = UrlA THEN 200 ELSE 404

\* both foreign threads send requests at the same time, to different
\* addresses or to the same one
ConcurrentNext ==
    \/ \E t \in Threads, in \in {NullInput, RequestInput(GetOf(UrlA)), RequestInput(GetOf(UrlB))},
          fault \in BOOLEAN : SendRequestBegin(t, in, fault)
    \/ Tick
    \/ \E t \in Threads : SendTransportError(t, <<"error sending request">>)
    \/ \E t \in Threads : SendTransportResponse(t, ServerStatus(sendReq[t].url), <<>>)
    \/ \E t \in Threads : SendBodyRead(t, TRUE, sendReq[t].url)
    \/ \E t \in Threads : SendRelease(t)

ConcurrentSpec == SendInit /\ [][ConcurrentNext]_vars

\* C21: a call that has returned gave its caller the answer to its own
\* request -- the server's status and body for the address it asked, or the
\* error its own input or its own send met -- and a call that waits for the
\* transport can be completed whatever the other call is doing.
C21_CallsAreIndependent ==
    /\ \A t \in Threads : sendPc[t] = "returned" =>
        /\ Returned(t) # Malformed
        /\ IF sendSeen[t].http
           THEN /\ Returned(t).status = ServerStatus(sendIn[t].req.url)
                /\ Returned(t).body = sendIn[t].req.url
           ELSE /\ Returned(t).status = 0
                /\ Returned(t).body =
                        IF ~ValidateInput(sendIn[t]).ok THEN ValidateInput(sendIn[t]).diag
                        ELSE IF sendSeen[t].fault THEN <<"panic in pigeon_send_request">>
                        ELSE <<"request failed: ", "error sending request">>
    /\ \A t \in Threads : sendPc[t] = "awaiting" =>
        /\ ENABLED SendTransportError(t, <<"error sending request">>)
        /\ ENABLED SendTransportResponse(t, ServerStatus(sendReq[t].url), <<>>)
    /\ \A t \in Threads : sendPc[t] = "reading" => ENABLED SendBodyRead(t, TRUE, sendReq[t].url)

\* the second call began later and has returned the answer for its address
\* while the first, which asked the other address, still waits
C21_Witness ==
    /\ sendPc["t1"] = "awaiting"
    /\ sendReq["t1"].url = UrlA
    /\ sendPc["t2"] = "returned"
    /\ sendStart["t1"] < sendStart["t2"]
    /\ Returned("t2") # Malformed
    /\ Returned("t2").status = 404
    /\ Returned("t2").body = UrlB

\* ------------------------------------------------------------- the blocking call
\* the body the server sends for an address, in two chunks
ServerBody(url) == url \o <<"a">>

\* the transport's outcomes for the call of thread t
TransportOutcome(t) ==
    \/ SendTransportError(t, <<"error sending request">>)
    \/ SendTransportResponse(t, ServerStatus(sendReq[t].url), <<>>)

BodyOutcome(t) == \E ok \in BOOLEAN : SendBodyRead(t, ok, ServerBody(sendReq[t].url))

SyncNext ==
    \/ \E t \in Threads,
          in \in {BadUtf8Input, RequestInput(GetOf(UrlA)), RequestInput(GetOf(UrlB))},
          fault \in BOOLEAN : SendRequestBegin(t, in, fault)
    \/ \E t \in Threads : TransportOutcome(t)
    \/ \E t \in Threads : BodyOutcome(t)
    \/ \E t \in Threads : SendRelease(t)

\* the transport does not stay silent for ever: a send ends in an error or a
\* response, and the reading of a body ends
SyncSpec ==
    /\ SendInit
    /\ [][SyncNext]_vars
    /\ \A t \in Threads : WF_vars(TransportOutcome(t)) /\ WF_vars(BodyOutcome(t))

\* the caller of thread t holds nothing while the operation is under way, and
\* what it holds after a dispatch is the error of the send or the response
\* with the body read to its end (empty when the reading failed)
C22_Terminal(t) ==
    /\ sendPc[t] \in {"awaiting", "reading"} => sendRet[t] = NULL
    /\ (sendPc[t] = "returned" /\ sendSeen[t].sends = 1) =>
        /\ Returned(t) # Malformed
        /\ IF sendSeen[t].http
           THEN /\ ~sendSeen[t].failed
                /\ Returned(t).status = ServerStatus(sendIn[t].req.url)
                /\ Returned(t).body \in {ServerBody(sendIn[t].req.url), <<>>}
           ELSE /\ sendSeen[t].failed
                /\ Returned(t).status = 0

\* C22: pigeon_send_request gives its caller nothing before the HTTP operation
\* has reached its end -- the error of the send, or the response with its body
\* read in full -- and, the transport giving an outcome, a call that was
\* dispatched returns.
C22_Synchronous ==
    /\ [](\A t \in Threads : C22_Terminal(t))
    /\ \A t \in Threads : (sendPc[t] \in {"awaiting", "reading"}) ~> (sendPc[t] = "returned")

\* a call has returned a response whose body has both chunks
C22_Witness ==
    /\ sendPc["t1"] = "returned"
    /\ sendSeen["t1"].http
    /\ Returned("t1") # Malformed
    /\ Returned("t1").body = ServerBody(UrlB)
    /\ sendPc["t2"] = "reading"

\* ------------------------------------------------------------- the two shared resources
\* a variant of CallerFree for a host function that lets a script call back
\* into the gateway while load_file runs it
CallerFreeReentrant(t) == cfgPc[t] \in {"idle", "exec"} /\ sendPc[t] = "idle"

\* the three operations are synchronous extern "C" functions (lib.rs 94, 193,
\* 274): a thread is inside one call at a time, and neither pigeon_send_request
\* (lib.rs 111-160) nor load_file (runtime.rs 38-49) calls the other
CallerFree(t) == cfgPc[t] = "idle" /\ sendPc[t] = "idle"

\* thread t holds the lock of an interpreter
HoldsLock(t) == \E i \in 1..Len(interp) : interp[i].holder = t

\* thread t has a future on the async runtime
OnRuntime(t) == sendPc[t] \in {"awaiting", "reading"}

\* every thread sends requests and loads and reloads the configuration
ResourceNext ==
    \/ \E t \in Threads, fault \in BOOLEAN :
            CallerFree(t) /\ SendRequestBegin(t, RequestInput(PlainGet), fault)
    \/ \E t \in Threads : SendTransportError(t, <<"error sending request">>)
    \/ \E t \in Threads : SendTransportResponse(t, 200, <<>>)
    \/ \E t \in Threads : SendBodyRead(t, TRUE, <<>>)
    \/ \E t \in Threads : SendRelease(t)
    \/ \E t \in Threads, made \in BOOLEAN :
            /\ CallerFree(t)
            /\ LoadConfigBegin(t, <<"Failed to get config directory">>, made, <<"memory error">>)
    \/ \E t \in Threads : CallerFree(t) /\ ReloadConfigBegin(t)
    \/ \E t \in Threads : LoadFileLock(t)
    \/ \E t \in Threads : LoadFileRead(t)
    \/ \E t \in Threads, panics \in BOOLEAN : LoadFileExec(t, panics)
    \/ \E t \in Threads : LoadConfigStore(t)
    \/ \E t \in Threads : LoadConfigReply(t)
    \/ \E t \in Threads : CfgRelease(t)

ResourceSpec == CfgInit /\ [][ResourceNext]_vars

\* thread t can take the next step of the call it is in
C23_CanStep(t) ==
    \/ ENABLED SendTransportError(t, <<"error sending request">>)
    \/ ENABLED SendBodyRead(t, TRUE, <<>>)
    \/ ENABLED LoadFileLock(t)
    \/ ENABLED LoadFileRead(t)
    \/ ENABLED LoadFileExec(t, FALSE)
    \/ ENABLED LoadConfigStore(t)
    \/ ENABLED LoadConfigReply(t)

\* C23: no thread holds an interpreter lock while it has a future on the async
\* runtime; a thread that waits for a lock waits for a holder that is not
\* itself waiting for anything, and every other thread inside a call can take
\* its next step, so no set of calls waits in a cycle.
C23_NoLockOrderingCycle ==
    /\ \A t \in Threads : ~(HoldsLock(t) /\ OnRuntime(t))
    /\ \A t \in Threads :
        (cfgPc[t] \notin {"idle", "returned"} \/ OnRuntime(t)) =>
            \/ C23_CanStep(t)
            \/ /\ cfgPc[t] = "lock"
               /\ interp[cfgRt[t]].holder \in Threads \ {t}
               /\ C23_CanStep(interp[cfgRt[t]].holder)

\* one thread executes a script under the lock while the other has a request
\* on the runtime
C23_Witness ==
    /\ cfgPc["t1"] = "exec"
    /\ HoldsLock("t1")
    /\ OnRuntime("t2")
    /\ tokio = 1

\* ------------------------------------------------------------- the failures of pigeon_load_config
\* what a caller tells from the text of an error payload: the opening of the
\* message, and for a failure of load_file the opening of its own message
PayloadKind(text) ==
    IF Len(text) < 8 \/ SubSeq(text, 1, 7) # <<"{", QUOTE, "error", QUOTE, ":", WS, QUOTE>>
    THEN "none"
    ELSE IF text[8] \in {"Failed to get config directory", "Failed to create config directory: "}
    THEN "dir"
    ELSE IF text[8] = "Failed to create Lua runtime: " THEN "new"
    ELSE IF text[8] = "Failed to load config file: " /\ Len(text) >= 9
    THEN (IF text[9] = "Failed to execute Lua script: " THEN "exec"
          ELSE IF text[9] = "Failed to read lua script: " THEN "read" ELSE "none")
    ELSE "none"

\* C24: a pigeon_load_config call that failed at directory resolution, at the
\* construction of the interpreter or at the execution of the script has
\* returned an error payload whose text tells which of the three it was, and
\* has run nothing after the failing step: no interpreter after a failed
\* resolution or construction, no execution, and never the store.
C24_DistinctFailures ==
    \A t \in Threads : (LoadReturned(t) /\ cfgSeen[t].failedAt \in {"dir", "new", "exec"}) =>
        /\ PayloadKind(TextAt(cfgRet[t])) = cfgSeen[t].failedAt
        /\ cfgSeen[t].failedAt \in {"dir", "new"} => cfgRt[t] = 0 /\ cfgSeen[t].ran = 0
        /\ cfgSeen[t].failedAt = "exec" =>
            /\ cfgSeen[t].ran = 1
            /\ slot # cfgRt[t]
            /\ ~interp[cfgRt[t]].live

\* a load has failed at the script, in the directory whose name holds a quote,
\* after an earlier load had stored a runtime
C24_Witness ==
    /\ LoadReturned("t1")
    /\ cfgSeen["t1"].failedAt = "exec"
    /\ interp[cfgRt["t1"]].dir = "d2"
    /\ slot # 0

\* ------------------------------------------------------------- one send per call
\* thread t takes a step of its pigeon_send_request call
C25_Steps(t) == sendPc'[t] # sendPc[t] /\ sendPc[t] # "returned"

\* what the call of thread t may change: its own locals, the runtime cell the
\* first time, and the heap by the one string it returns
C25_OnlyItsOwn(t) ==
    /\ UNCHANGED <<cfgVars, guiVars>>
    /\ clock' = clock
    /\ \A u \in Threads \ {t} :
        /\ sendPc'[u] = sendPc[u] /\ sendReq'[u] = sendReq[u] /\ sendResp'[u] = sendResp[u]
        /\ sendRet'[u] = sendRet[u] /\ sendSeen'[u] = sendSeen[u] /\ sendIn'[u] = sendIn[u]
        /\ sendStart'[u] = sendStart[u]
    /\ \A a \in DOMAIN heap : a \in DOMAIN heap' /\ heap'[a] = heap[a]
    /\ DOMAIN heap' \ DOMAIN heap = (IF sendPc'[t] = "returned" THEN {sendRet'[t]} ELSE {})

\* C25: a pigeon_send_request call has issued no send when it was rejected or
\* panicked before the send, and exactly one otherwise, also after the
\* transport failed; and its steps change nothing but the call's own locals,
\* the string it returns and, the first time, the runtime cell.
C25_OneSend ==
    /\ [](\A t \in Threads :
            /\ sendSeen[t].sends <= 1
            /\ sendPc[t] \in {"awaiting", "reading"} => sendSeen[t].sends = 1
            /\ (sendPc[t] = "returned" /\ (sendSeen[t].failed \/ sendSeen[t].http)) =>
                    sendSeen[t].sends = 1)
    /\ [][\A t \in Threads : C25_Steps(t) => C25_OnlyItsOwn(t)]_vars

\* the transport has failed, the call has returned the failure, and the other
\* thread's call went on untouched
C25_Witness ==
    /\ sendPc["t1"] = "returned"
    /\ sendSeen["t1"].failed
    /\ sendSeen["t1"].sends = 1
    /\ sendPc["t2"] = "reading"

\* ------------------------------------------------------------- the fallbacks
SerdeError == <<"a">>

\* one thread sends requests whose response may not serialize; the other
\* calls pigeon_load_config where the interpreter cannot be constructed, with
\* an error message that may hold a NUL
FallbackNext ==
    \/ \E t \in SendCallers, in \in {BadJsonInput(<<NUL>>), RequestInput(PlainGet)} :
            SendRequestBegin(t, in, FALSE)
    \/ \E t \in SendCallers : SendTransportError(t, <<"error sending request">>)
    \/ \E t \in SendCallers : SendTransportResponse(t, 200, <<>>)
    \/ \E t \in SendCallers, text \in {<<"a">>, <<"a", NUL>>} : SendBodyRead(t, TRUE, text)
    \/ \E t \in SendCallers, again \in BOOLEAN : SendBodyReadUnserializable(t, SerdeError, again)
    \/ \E t \in SendCallers : SendRelease(t)
    \/ \E t \in ConfigCallers, dirErr \in DirErrors, newErr \in {<<"a">>, <<"a", NUL>>} :
            LoadConfigBegin(t, dirErr, FALSE, newErr)
    \/ \E t \in ConfigCallers : CfgRelease(t)

FallbackSpec == CfgInit /\ [][FallbackNext]_vars

\* the texts the callers hold
HeldTexts ==
    {TextAt(sendRet[t]) : t \in {u \in Threads : sendPc[u] = "returned"}}
    \cup {TextAt(cfgRet[t]) : t \in {u \in Threads : cfgPc[u] = "returned"}}

C27_RestrictedLibraries ==
    \A i \in 1..Len(interp) : interp[i].live =>
        /\ interp[i].libs = {"coroutine", "table", "string", "utf8", "math", "package"}
        /\ interp[i].libs \cap {"io", "os", "debug"} = {}

\* the stored interpreter has executed scripts in a load and in a reload
C27_Witness ==
    /\ slot # 0
    /\ interp[slot].ns = {"p", "q"}
    /\ ReloadReturned("t1")
    /\ cfgSeen["t1"].ran = 1
    /\ interp[slot].libs \cap {"io", "os", "debug"} = {}

\* ------------------------------------------------------------- the measured duration
\* thread t issues its send in this step
C28_Issues(t) == sendPc[t] = "idle" /\ sendPc'[t] = "awaiting"

\* thread t returns a response whose body it has read in this step
C28_Completes(t) == sendPc[t] = "reading" /\ sendPc'[t] = "returned" /\ sendSeen'[t].ser = "ok"

\* C28: the start timestamp is the time at which the send is issued and stays
\* as it is until the call returns; the durationMs of a response is the time
\* from there to the end of the reading of the body, so it is not less than
\* the time the response took to arrive and never negative.
C28_DurationCoversBodyRead ==
    [][\A t \in Threads :
        /\ C28_Issues(t) => sendStart'[t] = clock
        /\ sendPc[t] \in {"awaiting", "reading"} => sendStart'[t] = sendStart[t]
        /\ C28_Completes(t) =>
            LET given == ParseResponse(heap'[sendRet'[t]])
            IN  /\ given # Malformed
                /\ given.durationMs = clock - sendStart[t]
                /\ given.durationMs >= sendResp[t].at - sendStart[t]
                /\ given.durationMs >= 0]_vars

\* the response arrived after one millisecond and its body after another
C28_Witness ==
    /\ sendPc["t1"] = "returned"
    /\ sendSeen["t1"].http
    /\ sendResp["t1"].at - sendStart["t1"] = 1
    /\ Returned("t1") # Malformed
    /\ Returned("t1").durationMs = 2

\* ------------------------------------------------------------- the namespace
\* one caller loads and reloads; the construction of the runtime may fail at
\* any of its steps
SetupNext ==
    \/ \E t \in HostCallers, failAt \in SetupFailures \cup {"none"} :
            LoadConfigEnter(t, <<"Failed to get config directory">>, failAt, <<"a">>)
    \/ \E t \in HostCallers : ReloadConfigBegin(t)
    \/ \E t \in HostCallers : LoadFileLock(t)
    \/ \E t \in HostCallers : LoadFileRead(t)
    \/ \E t \in HostCallers, panics \in BOOLEAN : LoadFileExec(t, panics)
    \/ \E t \in HostCallers : LoadConfigStore(t)
    \/ \E t \in HostCallers : LoadConfigReply(t)
    \/ \E t \in HostCallers : CfgRelease(t)
    \/ \E d \in Dirs, c \in Scripts : WriteConfig(d, c)

SetupSpec == CfgInit /\ [][SetupNext]_vars

\* what C29 says of a state
C29_Constructed ==
    /\ \A i \in 1..Len(interp) : interp[i].live =>
            interp[i].setup = <<"create_table", "config::setup", "plugin::setup", "globals.set">>
    /\ \A t \in Threads : cfgSeen[t].setupFail # "none" =>
        /\ cfgPc[t] = "returned"
        /\ cfgRt[t] = 0
        /\ cfgSeen[t].ran = 0
        /\ ConfigResult(t) = [error |-> <<"Failed to create Lua runtime: ", "a">>]

\* C29: every interpreter a call works on or the process has stored was set
\* up in full -- the table created, given to the config registrar, then to
\* the plugin registrar, then installed as the global -- before load_file
\* could take its lock; a pigeon_load_config call whose construction met a
\* failure, of a registrar or of any other step, has no runtime, has returned
\* the construction error and has stored nothing.
C29_SetupBeforeScripts ==
    /\ []C29_Constructed
    /\ [][\A t \in Threads :
            (cfgPc[t] = "idle" /\ cfgSeen'[t].setupFail # "none") =>
                slot' = slot /\ interp' = interp]_vars

\* the plugin registrar has failed in a load that came after a successful one
C29_Witness ==
    /\ cfgSeen["t1"].setupFail = "plugin::setup"
    /\ LoadReturned("t1")
    /\ slot # 0
    /\ interp[slot].ns # {}

\* ------------------------------------------------------------- the errors of load_file
\* the text holds the words one after another
Names(text, words) ==
    \E i \in 1..(Len(text) - Len(words) + 1) : SubSeq(text, i, i + Len(words) - 1) = words

\* C30: a call in which the execution of the script raised an error has
\* returned a text that holds the execution message followed by the path of
\* the script, and the chunk had been given that same path as its name; a
\* call in which the file could not be read has returned a text with the read
\* message followed by the path, and never the execution message.
C30_ErrorsNameThePath ==
    \A t \in Threads : cfgPc[t] = "returned" =>
        LET path == ConfigFile(interp[cfgRt[t]].dir)
        IN  /\ cfgSeen[t].failedAt = "exec" =>
                /\ Names(TextAt(cfgRet[t]), <<"Failed to execute Lua script: ">> \o path)
                /\ ~Names(TextAt(cfgRet[t]), <<"Failed to read lua script: ">>)
                /\ cfgSeen[t].chunk = path
            /\ cfgSeen[t].failedAt = "read" =>
                /\ Names(TextAt(cfgRet[t]), <<"Failed to read lua script: ">> \o path)
                /\ ~Names(TextAt(cfgRet[t]), <<"Failed to execute Lua script: ">>)
                /\ cfgSeen[t].ran = 0

\* a reload has failed at the execution of the script in the second directory
C30_Witness ==
    /\ ReloadReturned("t1")
    /\ cfgSeen["t1"].failedAt = "exec"
    /\ interp[slot].dir = "d2"
    /\ cfgSeen["t1"].chunk = ConfigFile("d2")

\* ------------------------------------------------------------- the store of the runtime
\* one foreign thread calls pigeon_load_config, another pigeon_reload_config,
\* while config.lua is written, replaced or removed
Loader == "t1"

Reloader == "t2"

StoreNext ==
    \/ \E dirErr \in DirErrors, made \in BOOLEAN, newErr \in ConstructErrors :
            LoadConfigBegin(Loader, dirErr, made, newErr)
    \/ ReloadConfigBegin(Reloader)
    \/ \E t \in Threads : LoadFileLock(t)
    \/ \E t \in Threads : LoadFileRead(t)
    \/ \E t \in Threads, panics \in BOOLEAN : LoadFileExec(t, panics)
    \/ LoadConfigStore(Loader)
    \/ LoadConfigReply(Loader)
    \/ \E t \in Threads : CfgRelease(t)
    \/ \E d \in Dirs, c \in Scripts : changes < MaxRacingChanges /\ WriteConfig(d, c)

StoreSpec == CfgInit /\ [][StoreNext]_vars

\* the only step that writes LUA_RUNTIME: the store of a pigeon_load_config
\* that met no failure, which the success reply follows
C31_Store(t) ==
    /\ cfgOp[t] = "load"
    /\ cfgPc[t] = "store"
    /\ cfgPc'[t] = "reply"
    /\ cfgSeen[t].failedAt = "none"
    /\ slot = 0
    /\ slot' = cfgRt[t]

\* a pigeon_load_config that has returned an error has stored nothing
C31_FailedLoadStoredNothing ==
    \A t \in Threads :
        (LoadReturned(t) /\ TextAt(cfgRet[t]) # ConfigSuccess) =>
            /\ cfgSeen[t].failedAt # "none"
            /\ slot = 0 \/ slot # cfgRt[t]
            /\ (~loadOk /\ \A u \in Threads \ {t} : cfgOp[u] # "load") => slot = 0

\* a reload that follows a pigeon_load_config failed on a script error, with no
\* successful pigeon_load_config so far, answers "Lua runtime not initialized"
C31_ReloadAfterFailedLoad ==
    \A t \in Threads :
        (ReloadReturned(t) /\ cfgSeen[t].afterFailedLoad /\ ~cfgSeen[t].loadOkBefore) =>
            /\ ~cfgSeen[t].storedBefore
            /\ TextAt(cfgRet[t]) = ConfigError(NotInitialized)

\* C31: LUA_RUNTIME is written only by the last step of a pigeon_load_config
\* that then returns success; a pigeon_load_config that fails at the directory,
\* at the construction of the interpreter or at the script stores nothing, and a
\* pigeon_reload_config that follows a load failed on a script error still
\* answers "Lua runtime not initialized"
C31_StoredOnlyOnSuccess ==
    /\ [](C31_FailedLoadStoredNothing /\ C31_ReloadAfterFailedLoad)
    /\ [][slot' # slot => \E t \in Threads : C31_Store(t)]_vars

\* C31 witness: the load of the first thread has returned the error of a failed
\* script, and the reload that followed it has answered "not initialized"
C31_Witness ==
    /\ LoadHasFailedOnScript(Loader)
    /\ ReloadReturned(Reloader)
    /\ cfgSeen[Reloader].afterFailedLoad
    /\ TextAt(cfgRet[Reloader]) = ConfigError(NotInitialized)
    /\ slot = 0
    /\ interp # <<>>

\* ------------------------------------------------------------- the stored runtime stays
\* the directory pigeon_reload_config takes the path of config.lua from
config_dir(r) == r.dir

\* two foreign threads call pigeon_load_config and pigeon_reload_config in any
\* interleaving while directory resolution comes to give another directory
KeepNext ==
    \/ \E t \in Threads, made \in BOOLEAN :
            LoadConfigBegin(t, <<"Failed to get config directory">>, made, <<"memory error">>)
    \/ \E t \in Threads : ReloadConfigBegin(t)
    \/ \E t \in Threads : LoadFileLock(t)
    \/ \E t \in Threads : LoadFileRead(t)
    \/ \E t \in Threads, panics \in BOOLEAN : LoadFileExec(t, panics)
    \/ \E t \in Threads : LoadConfigStore(t)
    \/ \E t \in Threads : LoadConfigReply(t)
    \/ \E t \in Threads : CfgRelease(t)
    \/ \E e \in EnvStates : changes < MaxRacingChanges /\ SetEnv(e)

KeepSpec == CfgInit /\ [][KeepNext]_vars

\* a step leaves a stored runtime where it is, alive and with its directory
C32_StoredStays ==
    slot # 0 =>
        /\ slot' = slot
        /\ interp'[slot].live
        /\ config_dir(interp'[slot]) = config_dir(interp[slot])

\* a pigeon_reload_config works on the stored runtime and executes the
\* config.lua of its directory
C32_ReloadUsesStored ==
    \A t \in Threads :
        (cfgOp[t] = "reload" /\ cfgRt[t] # 0) =>
            /\ cfgRt[t] = slot
            /\ cfgSeen[t].chunk \in {<<>>, ConfigFile(config_dir(interp[slot]))}

\* C32: once a runtime is stored, no later pigeon_load_config, overlapping or
\* not and successful or not, changes the stored runtime or its directory: one
\* runtime at most is ever stored, and every pigeon_reload_config reads the
\* config.lua of the directory the first stored runtime was made for
C32_OneRuntimeStored ==
    /\ []C32_ReloadUsesStored
    /\ [][C32_StoredStays]_vars

\* C32 witness: a later pigeon_load_config has returned success for another
\* directory, its runtime was not stored, and a reload has executed the
\* config.lua of the first directory
C32_Witness ==
    \E t, u \in Threads :
        /\ LoadReturned(t)
        /\ TextAt(cfgRet[t]) = ConfigSuccess
        /\ slot # 0
        /\ cfgRt[t] # slot
        /\ config_dir(interp[cfgRt[t]]) # config_dir(interp[slot])
        /\ ReloadReturned(u)
        /\ cfgSeen[u].chunk = ConfigFile(config_dir(interp[slot]))

\* ------------------------------------------------------------- the interpreter lock
\* one thread loads, both reload, config.lua is removed or replaced by a script
\* that faults; every step of load_file is taken in the end, and a thread that
\* waits for the mutex while it is free again and again gets it
LockNext ==
    \/ \E made \in BOOLEAN :
            LoadConfigBegin(Loader, <<"Failed to get config directory">>, made,
                            <<"memory error">>)
    \/ \E t \in Threads : ReloadConfigBegin(t)
    \/ \E t \in Threads : LoadFileLock(t)
    \/ \E t \in Threads : LoadFileRead(t)
    \/ \E t \in Threads, panics \in BOOLEAN : LoadFileExec(t, panics)
    \/ LoadConfigStore(Loader)
    \/ LoadConfigReply(Loader)
    \/ \E t \in Threads : CfgRelease(t)
    \/ \E d \in Dirs, c \in {"none", "bad"} :
            changes < MaxRacingChanges /\ WriteConfig(d, c)

LockSpec ==
    /\ CfgInit
    /\ [][LockNext]_vars
    /\ \A t \in Threads :
            /\ SF_vars(LoadFileLock(t))
            /\ WF_vars(LoadFileRead(t))
            /\ WF_vars(\E panics \in BOOLEAN : LoadFileExec(t, panics))

\* the runtimes whose mutex thread t holds
LockedBy(t) == {i \in DOMAIN interp : interp[i].holder = t}

\* a thread holds a mutex only between the lock and the exit of load_file
C33_HeldOnlyInside ==
    \A t \in Threads :
        /\ cfgPc[t] \notin {"read", "exec"} => LockedBy(t) = {}
        /\ cfgPc[t] \in {"read", "exec"} => LockedBy(t) = {cfgRt[t]}

\* C33: the interpreter lock taken by load_file is released at every exit of
\* load_file (success, read error, script error, unwinding): no finished call
\* holds it, and under fair scheduling every pigeon_reload_config that waits
\* for the lock gets past it and returns
C33_LockIsReleased ==
    /\ []C33_HeldOnlyInside
    /\ \A t \in Threads :
            (cfgOp[t] = "reload" /\ cfgPc[t] = "lock") ~> (cfgPc[t] = "returned")

\* C33 witness: a reload has returned the payload of a panic that unwound
\* through load_file, the mutex is free and poisoned, and the other thread's
\* reload, which came to the lock after that, has returned as well
C33_Witness ==
    \E t, u \in Threads :
        /\ t # u
        /\ ReloadReturned(t)
        /\ cfgSeen[t].failedAt = "panic"
        /\ cfgSeen[t].ran = 1
        /\ interp[slot].poisoned
        /\ interp[slot].holder = "none"
        /\ ReloadReturned(u)
        /\ cfgSeen[u].failedAt = "panic"
        /\ cfgSeen[u].ran = 0

\* ------------------------------------------------------------- main.rs, the handlers
\* Uuid::new_v4(): an id that was never handed out before
NewUuid == uuids + 1

\* iter().position(|x| x.id == id): the index of the first item with the id, 0 for None
RECURSIVE Position(_, _, _)
Position(items, id, i) ==
    IF i > Len(items) THEN 0
    ELSE IF items[i].id = id THEN i
    ELSE Position(items, id, i + 1)

Find(items, id) == Position(items, id, 1)

\* Vec::retain on a list of ids
Without(ids, id) == SelectSeq(ids, LAMBDA x : x # id)

\* Vec::retain(|d| d.id != id) on a list of definitions
Retain(items, id) == SelectSeq(items, LAMBDA d : d.id # id)

\* str::to_uppercase on the method names the form is given
to_uppercase(m) ==
    [i \in 1..Len(m) |-> IF m[i] = "get" THEN "GET" ELSE IF m[i] = "post" THEN "POST" ELSE m[i]]

\* main.rs 330-337
create_space(ws, id) == [ws EXCEPT !.spaces = Append(@, NewSpace(id))]

\* main.rs 245-272: name, method and url are trimmed and must not be empty
submit_endpoint_form(ws, id, name, method, url) ==
    IF IsBlank(name) \/ IsBlank(method) \/ IsBlank(url) THEN ws
    ELSE [ws EXCEPT !.endpoints = Append(@, Endpoint(id, to_uppercase(Trim(method)), Trim(url)))]

\* main.rs 274-304: key and value are trimmed and must not be empty
submit_header_form(ws, id, key, value) ==
    IF IsBlank(key) \/ IsBlank(value) THEN ws
    ELSE [ws EXCEPT !.headers = Append(@, Header(id, Trim(key), Trim(value), TRUE))]

\* main.rs 306-327: name and content type must not be blank, the content is
\* taken as it is
submit_body_form(ws, id, name, content_type, content) ==
    IF IsBlank(name) \/ IsBlank(content_type) THEN ws
    ELSE [ws EXCEPT !.bodies = Append(@, Body(id, Trim(content_type), content))]

\* main.rs 339-349
delete_endpoint(ws, id) ==
    [ws EXCEPT !.endpoints = Retain(@, id),
               !.spaces = [i \in 1..Len(@) |->
                    IF @[i].selected_endpoint_id = id
                    THEN [@[i] EXCEPT !.selected_endpoint_id = NoId] ELSE @[i]]]

\* a variant of delete_header that leaves the spaces as they are
delete_header_from_library(ws, id) == [ws EXCEPT !.headers = Retain(@, id)]

\* main.rs 351-359
delete_header(ws, id) ==
    [ws EXCEPT !.headers = Retain(@, id),
               !.spaces = [i \in 1..Len(@) |->
                    [@[i] EXCEPT !.selected_header_ids = Without(@, id)]]]

\* main.rs 361-371
delete_body(ws, id) ==
    [ws EXCEPT !.bodies = Retain(@, id),
               !.spaces = [i \in 1..Len(@) |->
                    IF @[i].selected_body_id = id
                    THEN [@[i] EXCEPT !.selected_body_id = NoId] ELSE @[i]]]

\* main.rs 378-385
select_endpoint(ws, space_id, endpoint_id) ==
    IF Find(ws.spaces, space_id) = 0 THEN ws
    ELSE [ws EXCEPT !.spaces[Find(ws.spaces, space_id)].selected_endpoint_id = endpoint_id]

\* a variant of toggle_header that adds the id whether or not it is selected
toggle_header_push(ws, space_id, header_id) ==
    IF Find(ws.spaces, space_id) = 0 THEN ws
    ELSE [ws EXCEPT !.spaces[Find(ws.spaces, space_id)].selected_header_ids =
                Append(@, header_id)]

\* main.rs 387-402: the id is removed where it is found, pushed otherwise
toggle_header(ws, space_id, header_id) ==
    IF Find(ws.spaces, space_id) = 0 THEN ws
    ELSE [ws EXCEPT !.spaces[Find(ws.spaces, space_id)].selected_header_ids =
                IF \E p \in 1..Len(@) : @[p] = header_id
                THEN LET pos == CHOOSE p \in 1..Len(@) :
                                    @[p] = header_id /\ \A q \in 1..(p - 1) : @[q] # header_id
                     IN  SubSeq(@, 1, pos - 1) \o SubSeq(@, pos + 1, Len(@))
                ELSE Append(@, header_id)]

\* main.rs 404-411
select_body(ws, space_id, body_id) ==
    IF Find(ws.spaces, space_id) = 0 THEN ws
    ELSE [ws EXCEPT !.spaces[Find(ws.spaces, space_id)].selected_body_id = body_id]

\* the ids of a list of definitions or spaces
IdsOf(items) == {items[i].id : i \in 1..Len(items)}

\* what the forms are given
FormNames == {<<>>, <<"a">>}

FormMethods == {<<>>, <<"post">>}

FormUrls == {<<WS>>, <<"http://example.test/">>}

FormKeys == {<<>>, <<"X-A">>}

FormValues == {<<WS>>, <<"a">>}

FormContentTypes == {<<WS>>, <<"text/plain">>}

FormContents == {<<>>, <<"a">>}

\* a handler changes the workspace and nothing else
GuiChange(ws) ==
    /\ workspace' = ws
    /\ UNCHANGED <<heap, sendVars, cfgVars, active_space_id, tasks, spawned>>

\* a handler that makes a definition or a space when it accepts its input; the
\* id is made after the checks
GuiCreate(ws) ==
    /\ GuiChange(ws)
    /\ uuids' = IF ws = workspace THEN uuids ELSE NewUuid

CreateSpace == GuiCreate(create_space(workspace, NewUuid))

SubmitEndpointForm(name, method, url) ==
    GuiCreate(submit_endpoint_form(workspace, NewUuid, name, method, url))

SubmitHeaderForm(key, value) == GuiCreate(submit_header_form(workspace, NewUuid, key, value))

SubmitBodyForm(name, content_type, content) ==
    GuiCreate(submit_body_form(workspace, NewUuid, name, content_type, content))

\* the delete buttons of the library cards, each with the id of its card
DeleteEndpoint(id) == GuiChange(delete_endpoint(workspace, id)) /\ UNCHANGED uuids

DeleteHeader(id) == GuiChange(delete_header(workspace, id)) /\ UNCHANGED uuids

DeleteBody(id) == GuiChange(delete_body(workspace, id)) /\ UNCHANGED uuids

\* main.rs 373-376: the sidebar item of a space
SelectSpace(id) ==
    /\ active_space_id' = id
    /\ UNCHANGED <<heap, sendVars, cfgVars, workspace, tasks, uuids, spawned>>

\* the rows of the form of the active space, each with the id of its definition
SelectEndpoint(space_id, endpoint_id) ==
    GuiChange(select_endpoint(workspace, space_id, endpoint_id)) /\ UNCHANGED uuids

ToggleHeader(space_id, header_id) ==
    GuiChange(toggle_header(workspace, space_id, header_id)) /\ UNCHANGED uuids

SelectBody(space_id, body_id) ==
    GuiChange(select_body(workspace, space_id, body_id)) /\ UNCHANGED uuids

\* ------------------------------------------------------------- the GUI, definitions and selections
\* ids handed out in all: the four of the default workspace and the new ones
MaxUuids == 6

\* the user works on the library and on the form of the active space; every
\* button carries the id of the item it was rendered for
SelectionNext ==
    \/ uuids < MaxUuids /\ CreateSpace
    \/ \E name \in FormNames, method \in FormMethods, url \in FormUrls :
            uuids < MaxUuids /\ SubmitEndpointForm(name, method, url)
    \/ \E key \in FormKeys, value \in FormValues :
            uuids < MaxUuids /\ SubmitHeaderForm(key, value)
    \/ \E name \in FormNames, content_type \in FormContentTypes, content \in FormContents :
            uuids < MaxUuids /\ SubmitBodyForm(name, content_type, content)
    \/ \E id \in IdsOf(workspace.endpoints) : DeleteEndpoint(id)
    \/ \E id \in IdsOf(workspace.headers) : DeleteHeader(id)
    \/ \E id \in IdsOf(workspace.bodies) : DeleteBody(id)
    \/ \E id \in IdsOf(workspace.spaces) : SelectSpace(id)
    \/ \E id \in IdsOf(workspace.endpoints) :
            active_space_id # NoId /\ SelectEndpoint(active_space_id, id)
    \/ \E id \in IdsOf(workspace.headers) :
            active_space_id # NoId /\ ToggleHeader(active_space_id, id)
    \/ \E id \in IdsOf(workspace.bodies) :
            active_space_id # NoId /\ SelectBody(active_space_id, id)

SelectionSpec == SendInit /\ [][SelectionNext]_vars

\* the ids in a list of ids
Range(ids) == {ids[i] : i \in 1..Len(ids)}

\* every selection of every space names a definition of the workspace
C38_SelectionsExist ==
    \A i \in 1..Len(workspace.spaces) :
        LET space == workspace.spaces[i]
        IN  /\ space.selected_endpoint_id \in IdsOf(workspace.endpoints) \cup {NoId}
            /\ space.selected_body_id \in IdsOf(workspace.bodies) \cup {NoId}
            /\ Range(space.selected_header_ids) \subseteq IdsOf(workspace.headers)

\* a step that takes definitions out of the workspace takes their selections
\* out of every space and leaves the other selections as they were
C38_DeleteStep ==
    LET goneEndpoints == IdsOf(workspace.endpoints) \ IdsOf(workspace'.endpoints)
        goneHeaders == IdsOf(workspace.headers) \ IdsOf(workspace'.headers)
        goneBodies == IdsOf(workspace.bodies) \ IdsOf(workspace'.bodies)
    IN  (goneEndpoints \cup goneHeaders \cup goneBodies # {}) =>
            /\ Len(workspace'.spaces) = Len(workspace.spaces)
            /\ \A i \in 1..Len(workspace.spaces) :
                    LET old == workspace.spaces[i]
                        new == workspace'.spaces[i]
                    IN  /\ new.selected_endpoint_id =
                                IF old.selected_endpoint_id \in goneEndpoints THEN NoId
                                ELSE old.selected_endpoint_id
                        /\ new.selected_body_id =
                                IF old.selected_body_id \in goneBodies THEN NoId
                                ELSE old.selected_body_id
                        /\ new.selected_header_ids =
                                SelectSeq(old.selected_header_ids,
                                          LAMBDA x : x \notin goneHeaders)

\* C38: after any sequence of create, select, toggle and delete operations
\* every space's selected endpoint, selected body and selected headers are
\* definitions that still exist: deleting a definition removes each selection
\* of it in every space and no other selection
C38_NoDanglingSelection ==
    /\ []C38_SelectionsExist
    /\ [][C38_DeleteStep]_vars

\* C38 witness: the default header was deleted, and two spaces still hold
\* selections of definitions that exist, among them a header made later
C38_Witness ==
    /\ 2 \notin IdsOf(workspace.headers)
    /\ Len(workspace.spaces) = 2
    /\ \E i \in 1..2 : workspace.spaces[i].selected_header_ids # <<>>
    /\ \E i \in 1..2 : workspace.spaces[i].selected_endpoint_id # NoId
    /\ \E i \in 1..2 : workspace.spaces[i].selected_body_id # NoId

\* the set of header ids the space with that id has selected
SelectedHeaders(ws, space_id) == Range(ws.spaces[Find(ws.spaces, space_id)].selected_header_ids)

\* ws with the header selection of every space taken as a set
AsSets(ws) ==
    [ws EXCEPT !.spaces = [i \in 1..Len(@) |->
            [@[i] EXCEPT !.selected_header_ids = Range(@)]]]

\* C39: toggle_header applied twice with the same space and header restores
\* the set of selected header ids and changes nothing else; no id is ever
\* twice in selected_header_ids; a toggle for an unknown space id changes
\* nothing
C39_ToggleIsInvolution ==
    /\ \A i \in 1..Len(workspace.spaces) :
            LET ids == workspace.spaces[i].selected_header_ids
            IN  \A p, q \in 1..Len(ids) : ids[p] = ids[q] => p = q
    /\ \A header_id \in IdsOf(workspace.headers) \cup {NewUuid} :
            /\ toggle_header(workspace, NewUuid, header_id) = workspace
            /\ \A space_id \in IdsOf(workspace.spaces) :
                    LET once == toggle_header(workspace, space_id, header_id)
                        twice == toggle_header(once, space_id, header_id)
                    IN  /\ AsSets(twice) = AsSets(workspace)
                        /\ SelectedHeaders(once, space_id) # SelectedHeaders(workspace, space_id)

\* C39 witness: a space has two headers selected, so that toggling the first
\* of them twice moves it behind the other
C39_Witness ==
    \E i \in 1..Len(workspace.spaces) :
        LET space == workspace.spaces[i]
        IN  /\ Len(space.selected_header_ids) = 2
            /\ toggle_header(toggle_header(workspace, space.id, space.selected_header_ids[1]),
                             space.id, space.selected_header_ids[1]) # workspace

\* ------------------------------------------------------------- main.rs, send_request
\* the number of responses a space keeps (main.rs 518)
HistoryLimit == 10

\* Option<ResponseData>: None
NoResponse == <<>>

\* main.rs 441-445: the selected headers that the workspace still has, in the
\* order of their selection
RECURSIVE SelectedHeaderDefs(_, _)
SelectedHeaderDefs(ws, ids) ==
    IF ids = <<>> THEN <<>>
    ELSE IF Find(ws.headers, Head(ids)) = 0 THEN SelectedHeaderDefs(ws, Tail(ids))
    ELSE <<ws.headers[Find(ws.headers, Head(ids))]>> \o SelectedHeaderDefs(ws, Tail(ids))

\* main.rs 457-473: the request the task sends; with a body selected its
\* Content-Type and its content are set as they are
GuiRequest(ws, space) ==
    LET endpoint == ws.endpoints[Find(ws.endpoints, space.selected_endpoint_id)]
        b == Find(ws.bodies, space.selected_body_id)
    IN  [headers |-> EnabledHeaders(SelectedHeaderDefs(ws, space.selected_header_ids))
                     \o (IF b # 0
                         THEN <<[key |-> <<"Content-Type">>, value |-> ws.bodies[b].content_type]>>
                         ELSE <<>>),
         method |-> ParseMethod(endpoint.method),
         payload |-> IF b # 0 THEN [content |-> ws.bodies[b].content, present |-> TRUE]
                     ELSE [content |-> <<>>, present |-> FALSE],
         url |-> endpoint.url]

\* the same method, URL, header list and body as the FfiRequest that
\* pigeon_send_request would parse, kept with the task to compare the two paths
AsFfiRequest(ws, space) ==
    LET endpoint == ws.endpoints[Find(ws.endpoints, space.selected_endpoint_id)]
        b == Find(ws.bodies, space.selected_body_id)
        hs == SelectedHeaderDefs(ws, space.selected_header_ids)
    IN  [body |-> IF b = 0 THEN NoBody
                  ELSE [content |-> ws.bodies[b].content,
                        contentType |-> ws.bodies[b].content_type, present |-> TRUE],
         headers |-> [i \in 1..Len(hs) |->
                        [key |-> hs[i].key, value |-> hs[i].value, enabled |-> hs[i].enabled]],
         method |-> endpoint.method,
         url |-> endpoint.url]

\* model.rs 66-74: ResponseData; the timestamp is the number of the task
ResponseData(status, status_text, headers, body, timestamp, duration) ==
    [body |-> body, headers |-> headers, status |-> status, duration_ms |-> duration,
     status_text |-> status_text, timestamp |-> timestamp]

\* a variant of should_start that starts a request whatever the flag says
should_start_always(space) == TRUE

\* main.rs 421-424: a request is started for a space that has none pending
should_start(space) == ~space.is_request_pending

\* main.rs 413-454: the Send button.  The flag is set before the endpoint is
\* looked up, and the task is spawned only when the space has an endpoint
send_request ==
    /\ LET i == Find(workspace.spaces, active_space_id)
       IN  IF active_space_id = NoId \/ i = 0 THEN UNCHANGED <<workspace, tasks, spawned>>
           ELSE IF ~should_start(workspace.spaces[i]) THEN UNCHANGED <<workspace, tasks, spawned>>
           ELSE /\ workspace' = [workspace EXCEPT !.spaces[i].is_request_pending = TRUE]
                /\ IF Find(workspace.endpoints, workspace.spaces[i].selected_endpoint_id) = 0
                   THEN UNCHANGED <<tasks, spawned>>
                   ELSE /\ spawned' = spawned + 1
                        /\ tasks' = Append(tasks,
                                [n |-> spawned + 1,
                                 req |-> GuiRequest(workspace, workspace.spaces[i]),
                                 start |-> clock,
                                 got |-> clock,
                                 given |-> AsFfiRequest(workspace, workspace.spaces[i]),
                                 space |-> active_space_id,
                                 stage |-> "sending",
                                 response_data |-> NoResponse,
                                 ffi |-> NoResponse])
    /\ UNCHANGED <<heap, sendVars, cfgVars, active_space_id, uuids>>

\* a step of the task with index k, which leaves everything but the tasks alone
TaskStep(k, task) ==
    /\ tasks' = [tasks EXCEPT ![k] = task]
    /\ UNCHANGED <<heap, sendVars, cfgVars, workspace, active_space_id, uuids, spawned>>

\* main.rs 476-477, 499-506: req.send() gave Err(e)
TaskError(k, e) ==
    /\ k \in 1..Len(tasks)
    /\ tasks[k].stage = "sending"
    /\ TaskStep(k, [tasks[k] EXCEPT
            !.stage = "done",
            !.response_data = <<ResponseData(0, <<"Error">>, <<>>, e, tasks[k].n,
                                             clock - tasks[k].start)>>,
            !.ffi = <<ErrorResponse(<<"request failed: ">> \o e)>>])

\* main.rs 476-487: req.send() gave Ok(resp); the duration was taken, and
\* status, status text and headers are
TaskResponse(k, code, hs) ==
    /\ k \in 1..Len(tasks)
    /\ tasks[k].stage = "sending"
    /\ TaskStep(k, [tasks[k] EXCEPT
            !.stage = "reading",
            !.got = clock,
            !.response_data = <<ResponseData(code, StatusLine(code), hs, <<>>, tasks[k].n,
                                             clock - tasks[k].start)>>])

\* main.rs 488-497: resp.text().await.unwrap_or_default() ends and the
\* ResponseData is made
TaskBody(k, ok, text) ==
    /\ k \in 1..Len(tasks)
    /\ tasks[k].stage = "reading"
    /\ TaskStep(k, [tasks[k] EXCEPT
            !.stage = "done",
            !.response_data = <<[@[1] EXCEPT !.body = ReadText(ok, text)]>>,
            !.ffi = <<[body |-> ReadText(ok, text),
                       durationMs |-> duration_ms(tasks[k].start, tasks[k].got, clock),
                       headers |-> tasks[k].response_data[1].headers,
                       status |-> tasks[k].response_data[1].status,
                       statusText |-> tasks[k].response_data[1].status_text]>>])

\* main.rs 510: the task ends without a value (it panicked or was cancelled),
\* and handle.await.ok() is None
TaskAbort(k) ==
    /\ k \in 1..Len(tasks)
    /\ tasks[k].stage \in {"sending", "reading"}
    /\ TaskStep(k, [tasks[k] EXCEPT !.stage = "done", !.response_data = NoResponse])

\* a variant of record that appends the response and drops the first entry
record_at_end(history, response_data) ==
    IF Len(history) + 1 > HistoryLimit THEN Tail(Append(history, response_data))
    ELSE Append(history, response_data)

\* main.rs 517-520: history.insert(0, ..), then pop() when more than ten are held
record(history, response_data) ==
    IF Len(history) + 1 > HistoryLimit
    THEN SubSeq(<<response_data>> \o history, 1, Len(history))
    ELSE <<response_data>> \o history

\* a variant of completion_space that records into the space that is active
completion_space_active(space_id, active) == active

\* main.rs 514: the space is looked up by the id send_request captured
completion_space(space_id, active) == space_id

\* main.rs 510-525: the spawned future gets the result of the task and updates
\* the workspace on the GUI thread
TaskJoin(k) ==
    /\ k \in 1..Len(tasks)
    /\ tasks[k].stage = "done"
    /\ LET i == Find(workspace.spaces, completion_space(tasks[k].space, active_space_id))
       IN  workspace' =
                IF i = 0 THEN workspace
                ELSE [workspace EXCEPT !.spaces[i] =
                        [@ EXCEPT !.is_request_pending = FALSE,
                                  !.history = IF tasks[k].response_data = NoResponse THEN @
                                              ELSE record(@, tasks[k].response_data[1])]]
    /\ tasks' = SubSeq(tasks, 1, k - 1) \o SubSeq(tasks, k + 1, Len(tasks))
    /\ UNCHANGED <<heap, sendVars, cfgVars, active_space_id, uuids, spawned>>

\* ------------------------------------------------------------- the GUI sends requests
\* presses of Send that start a task during one run
MaxRequests == 3

\* most spaces of the workspace while requests are in flight
MaxSpaces == 2

\* the user makes spaces, picks one, selects its endpoint and presses Send; the
\* tasks run on the tokio runtime beside the GUI thread
FlightNext ==
    \/ Len(workspace.spaces) < MaxSpaces /\ CreateSpace
    \/ \E id \in IdsOf(workspace.spaces) : SelectSpace(id)
    \/ \E id \in IdsOf(workspace.endpoints) :
            active_space_id # NoId /\ SelectEndpoint(active_space_id, id)
    \/ spawned < MaxRequests /\ send_request
    \/ \E k \in 1..Len(tasks) : TaskError(k, <<"error sending request">>)
    \/ \E k \in 1..Len(tasks) : TaskResponse(k, 200, <<>>)
    \/ \E k \in 1..Len(tasks) : TaskBody(k, TRUE, <<"a">>)
    \/ \E k \in 1..Len(tasks) : TaskAbort(k)
    \/ \E k \in 1..Len(tasks) : TaskJoin(k)

FlightSpec == SendInit /\ [][FlightNext]_vars

\* the same, where a task that can go on does go on: the transport answers or
\* fails, the body is read, and the future that waits for the task gets its turn
FlightFairSpec ==
    /\ FlightSpec
    /\ \A k \in 1..MaxRequests :
        /\ WF_vars(TaskError(k, <<"error sending request">>) \/ TaskResponse(k, 200, <<>>))
        /\ WF_vars(TaskBody(k, TRUE, <<"a">>))
        /\ WF_vars(TaskJoin(k))

\* the space with index i has a request pending
Pending(i) == i \in 1..Len(workspace.spaces) /\ workspace.spaces[i].is_request_pending

\* C34: a space whose is_request_pending was set by send_request has the flag
\* reset later, so no space stays pending forever
C34_PendingIsReset == \A i \in 1..MaxSpaces : Pending(i) ~> ~Pending(i)

\* what C34 fails on: a space is pending and no task is there to reset it
C34_PendingWithoutTask ==
    \E i \in 1..Len(workspace.spaces) :
        /\ Pending(i)
        /\ \A k \in 1..Len(tasks) : tasks[k].space # workspace.spaces[i].id

\* the tasks that were started for the space with this id and have not been joined
InFlight(space_id) == {k \in 1..Len(tasks) : tasks[k].space = space_id}

\* no space has two requests in flight, and a space with one in flight is pending
C35_AtMostOne ==
    \A i \in 1..Len(workspace.spaces) :
        /\ Cardinality(InFlight(workspace.spaces[i].id)) <= 1
        /\ InFlight(workspace.spaces[i].id) # {} => Pending(i)

\* C35: at most one request per space is in flight at any time, and a
\* send_request for a space whose is_request_pending is true starts no request
\* and changes no state
C35_OneInFlightPerSpace ==
    /\ []C35_AtMostOne
    /\ [][send_request /\ Pending(Find(workspace.spaces, active_space_id))
            => UNCHANGED vars]_vars

\* two spaces have a request in flight at the same time, and the active one of
\* them is pending, so that its Send starts nothing
C35_Witness ==
    /\ \E j, k \in 1..Len(tasks) :
            /\ tasks[j].space # tasks[k].space
            /\ tasks[j].stage = "sending"
            /\ tasks[k].stage \in {"sending", "reading"}
    /\ Pending(Find(workspace.spaces, active_space_id))
    /\ spawned < MaxRequests

\* the tasks without the one at index k
TasksWithout(k) == SubSeq(tasks, 1, k - 1) \o SubSeq(tasks, k + 1, Len(tasks))

\* the step joins the task at index k: the task was done and is gone afterwards
Joins(k) == k \in 1..Len(tasks) /\ tasks[k].stage = "done" /\ tasks' = TasksWithout(k)

\* the step leaves the space at index i as it was but for its flag, which is
\* false, and for its history, which may have the response data in front
CompletedIn(i, response_data) ==
    /\ i \in 1..Len(workspace.spaces)
    /\ workspace'.spaces[i].id = workspace.spaces[i].id
    /\ ~workspace'.spaces[i].is_request_pending
    /\ IF response_data = NoResponse
       THEN workspace'.spaces[i].history = workspace.spaces[i].history
       ELSE /\ workspace'.spaces[i].history # <<>>
            /\ workspace'.spaces[i].history[1] = response_data[1]

\* C36: a completed request records its response in the history of the space
\* that started it, whatever space is active then, and changes the history and
\* the pending flag of no other space
C36_RecordedWhereStarted ==
    [][\A k \in 1..Len(tasks) : Joins(k) =>
            LET i == Find(workspace.spaces, tasks[k].space)
            IN  /\ CompletedIn(i, tasks[k].response_data)
                /\ Len(workspace'.spaces) = Len(workspace.spaces)
                /\ \A j \in 1..Len(workspace.spaces) :
                        j # i => workspace'.spaces[j] = workspace.spaces[j]]_vars

\* a space that is not the active one holds the response of its request, while
\* the request of the active space is still in flight
C36_Witness ==
    \E i \in 1..Len(workspace.spaces) :
        /\ workspace.spaces[i].id # active_space_id
        /\ workspace.spaces[i].history # <<>>
        /\ ~Pending(i)
        /\ InFlight(active_space_id) # {}
        /\ workspace.spaces[Find(workspace.spaces, active_space_id)].history = <<>>

\* ------------------------------------------------------------- the history of a space
\* presses of Send that start a task while the history fills up
MaxSends == 12

\* the user picks the space, selects the endpoint and sends one request after
\* the other; every request ends with a response or with a transport error
HistoryNext ==
    \/ \E id \in IdsOf(workspace.spaces) : SelectSpace(id)
    \/ \E id \in IdsOf(workspace.endpoints) :
            active_space_id # NoId /\ SelectEndpoint(active_space_id, id)
    \/ spawned < MaxSends /\ send_request
    \/ \E k \in 1..Len(tasks) : TaskError(k, <<"error sending request">>)
    \/ \E k \in 1..Len(tasks) : TaskResponse(k, 200, <<>>)
    \/ \E k \in 1..Len(tasks) : TaskBody(k, TRUE, <<"a">>)
    \/ \E k \in 1..Len(tasks) : TaskJoin(k)

HistorySpec == SendInit /\ [][HistoryNext]_vars

\* a history of at most ten responses, each newer than the one after it
C37_BoundedNewestFirst ==
    \A i \in 1..Len(workspace.spaces) :
        LET history == workspace.spaces[i].history
        IN  /\ Len(history) <= HistoryLimit
            /\ \A j \in 1..(Len(history) - 1) : history[j].timestamp > history[j + 1].timestamp

\* the step puts the response in front of the history of the space at index i,
\* keeps the entries that were there in their order, and drops the last of them
\* when there were ten
InsertedInFront(i, response) ==
    LET history == workspace.spaces[i].history
        after == workspace'.spaces[i].history
    IN  /\ after # <<>>
        /\ after[1] = response
        /\ Len(after) = IF Len(history) = HistoryLimit THEN HistoryLimit ELSE Len(history) + 1
        /\ \A j \in 2..Len(after) : after[j] = history[j - 1]

\* C37: the history of every space holds at most 10 responses, newest first; a
\* completion inserts its response at index 0 and removes exactly the oldest
\* entry when the length would exceed 10
C37_HistoryOfTen ==
    /\ []C37_BoundedNewestFirst
    /\ [][\A k \in 1..Len(tasks) : Joins(k) /\ tasks[k].response_data # NoResponse =>
            InsertedInFront(Find(workspace.spaces, tasks[k].space),
                            tasks[k].response_data[1])]_vars

\* twelve requests have completed, the history holds the last ten of them, and
\* the first two are gone
C37_Witness ==
    \E i \in 1..Len(workspace.spaces) :
        /\ Len(workspace.spaces[i].history) = HistoryLimit
        /\ workspace.spaces[i].history[1].timestamp = HistoryLimit + 2
        /\ workspace.spaces[i].history[HistoryLimit].timestamp = 3
        /\ tasks = <<>>

\* ------------------------------------------------------------- the GUI and the library
\* the user makes a body with or without content, picks the space, fills its
\* form and sends one request; the clock goes on while the task runs
ExecutorNext ==
    \/ \E content \in FormContents :
            uuids < MaxUuids /\ SubmitBodyForm(<<"a">>, <<"text/plain">>, content)
    \/ \E id \in IdsOf(workspace.spaces) : SelectSpace(id)
    \/ \E id \in IdsOf(workspace.endpoints) :
            active_space_id # NoId /\ SelectEndpoint(active_space_id, id)
    \/ \E id \in IdsOf(workspace.headers) :
            active_space_id # NoId /\ ToggleHeader(active_space_id, id)
    \/ \E id \in IdsOf(workspace.bodies) :
            active_space_id # NoId /\ SelectBody(active_space_id, id)
    \/ spawned = 0 /\ send_request
    \/ \E k \in 1..Len(tasks) : TaskError(k, <<"error sending request">>)
    \/ \E k \in 1..Len(tasks) : TaskResponse(k, 200, <<>>)
    \/ \E k \in 1..Len(tasks), ok \in BOOLEAN : TaskBody(k, ok, <<"a">>)
    \/ \E k \in 1..Len(tasks) : TaskAbort(k)
    \/ \E k \in 1..Len(tasks) : TaskJoin(k)
    \/ Tick

ExecutorSpec == SendInit /\ [][ExecutorNext]_vars

\* the task sends the request that pigeon_send_request builds from the same
\* method, URL, headers and body
C40_SameRequest == \A k \in 1..Len(tasks) : tasks[k].req = BuildRequest(tasks[k].given)

\* the task maps the outcome of the transport to the status, status text,
\* headers, body and duration that pigeon_send_request maps it to
C40_SameOutcome ==
    \A k \in 1..Len(tasks) :
        tasks[k].response_data # NoResponse /\ tasks[k].ffi # NoResponse =>
            /\ tasks[k].response_data[1].status = tasks[k].ffi[1].status
            /\ tasks[k].response_data[1].status_text = tasks[k].ffi[1].statusText
            /\ tasks[k].response_data[1].headers = tasks[k].ffi[1].headers
            /\ tasks[k].response_data[1].body = tasks[k].ffi[1].body
            /\ tasks[k].response_data[1].duration_ms = tasks[k].ffi[1].durationMs

\* C40: the GUI request path and the FFI request path are equivalent executors:
\* for the same method, URL, header list and body they build the same request,
\* and they map the same transport outcome to the same status, statusText,
\* headers, body and duration
C40_EquivalentExecutors == C40_SameRequest /\ C40_SameOutcome

\* why C34 fails for good: a space that is pending with no task of its own stays
\* pending in every step, whatever the user and the other tasks do
C34_StaysPending ==
    [][\A i \in 1..Len(workspace.spaces) :
            Pending(i) /\ InFlight(workspace.spaces[i].id) = {}
                => workspace'.spaces[i].is_request_pending]_vars


====
